---- MODULE Spec2Model ----
(***************************************************************************)
(* A model of the IRC client library github.com/gissleh/irc: the event     *)
(* dispatcher of client.go, the connection life cycle, the capability and  *)
(* nick negotiation and the target set.                                    *)
(*                                                                         *)
(* Go strings are modelled as sequences of atoms (an atom is a TLA+ string *)
(* standing for one or several characters that the code never takes        *)
(* apart): "CAP REQ :" + "multi-prefix chghost" is                         *)
(* <<"CAP REQ :", "multi-prefix", " ", "chghost">>.  The string functions  *)
(* of the code (strings.Split, strings.SplitN, strings.Join, ToUpper) are  *)
(* computed on these sequences.                                            *)
(***************************************************************************)
EXTENDS Integers, Sequences, FiniteSets, TLC

VARIABLES
    config,         \* Client.config (after WithDefaults)
    conn,           \* Client.conn: 0 is nil, k > 0 the k-th dialled connection
    open,           \* the dialled connections that are not closed
    events,         \* Client.events, the dispatcher's inbox (a buffered channel)
    spill,          \* events held by the goroutines EmitNonBlocking spawned
    sends,          \* Client.sends, the send queue (a buffered channel)
    sendSpill,      \* lines held by the goroutines SendQueued spawned
    done,           \* the EmitSync events whose context has been cancelled by event.cancel
    capEnabled,     \* Client.capEnabled: the keys mapped to true
    capData,        \* Client.capData: a set of <<key, data>>
    capsRequested,  \* Client.capsRequested
    nick, user, host, quit, ready,
    isupport,       \* Client.isupport (isupport.State)
    values,         \* Client.values, the keys the client itself uses
    targets,        \* Client.targets
    handlers,       \* Client.handlers
    destroyed,      \* Client.ctx is cancelled
    closed,         \* Destroy has closed Client.events and Client.sends
    panicked,       \* the goroutine that panicked ("" for none): the process is gone
    nextId,         \* the identifiers generateClientID has handed out
    cpc, cnew,      \* the caller of Connect: its position, the connection it dialled
    rpc,            \* the reader goroutine of each connection
    dpc, dloc,      \* the dispatcher inside handleEvent("client.connect"): position, locals
    spc, sev, sctx, sres, \* the caller of EmitSync: position, event, its ctx, result
    rxCount,        \* lines read from sockets so far
    emitCount,      \* events emitted by callers so far
    hist,           \* the events handleEvent has been entered with, in order
    hlog,           \* the handler invocations: <<index in hist, handler, event.targets>>
    out,            \* the calls of Client.Send: line, connection, result, index in hist
    queued,         \* the calls of Client.SendQueued: line, index in hist, length of hlog
    api,            \* the calls of the client's methods by other goroutines, with results
    mutex,          \* Client.mutex: the read locks held, the goroutines waiting in Lock
    ein,            \* the caller of EmitInput with a target: position, target, line
    now,            \* the clock, in ticks
    sw,             \* handleSendLoop: its position and locals, the writes it made
    ul,             \* a list.List of its own: the list, the last call on it, its
                    \* result and the list before the call
    lib,            \* the last call of a function without state (CutMessage,
                    \* ParsePacket): its name, its arguments, what it returned
    ticker,         \* the time.Ticker of handleEventLoop: its next tick, whether
                    \* one waits in ticker.C; the time of the last write to a
                    \* connection and the tick events handled so far
    enb,            \* the caller of EmitNonBlocking: its position and its event
    sh              \* a list.List shared by a goroutine that changes it and one
                    \* that reads it: the list and the position of either call

vars == <<config, conn, open, events, spill, sends, sendSpill, done, capEnabled, capData,
          capsRequested, nick, user, host, quit, ready, isupport, values,
          targets, handlers, destroyed, closed, panicked, nextId, cpc, cnew, rpc,
          dpc, dloc, spc, sev, sctx, sres, rxCount, emitCount, hist, hlog,
          out, queued, api, mutex, ein, now, sw, ul, lib, ticker, enb, sh>>

(***************************************************************************)
(* Strings                                                                 *)
(***************************************************************************)
RECURSIVE JoinStr(_, _)
\* strings.Join(list, sep)
JoinStr(list, sep) ==
    IF list = <<>> THEN <<>>
    ELSE IF Len(list) = 1 THEN list[1]
    ELSE list[1] \o sep \o JoinStr(Tail(list), sep)

RECURSIVE SplitAcc(_, _, _)
SplitAcc(s, sep, cur) ==
    IF s = <<>> THEN <<cur>>
    ELSE IF Head(s) = sep THEN <<cur>> \o SplitAcc(Tail(s), sep, <<>>)
    ELSE SplitAcc(Tail(s), sep, Append(cur, Head(s)))

\* strings.Split(s, sep) for a one-character separator: Split("", " ") is [""]
SplitStr(s, sep) == SplitAcc(s, sep, <<>>)

IndexOfAtom(s, a) ==
    IF \E i \in 1..Len(s) : s[i] = a
    THEN CHOOSE i \in 1..Len(s) : s[i] = a /\ \A j \in 1..(i - 1) : s[j] # a
    ELSE 0

\* strings.SplitN(s, sep, 2)
SplitN2(s, sep) ==
    LET i == IndexOfAtom(s, sep)
    IN  IF i = 0 THEN <<s>> ELSE <<SubSeq(s, 1, i - 1), SubSeq(s, i + 1, Len(s))>>

\* strings.ToUpper on the atoms that occur as input verbs
UpperAtom(a) ==
    CASE a = "me" -> "ME"
      [] a = "text" -> "TEXT"
      [] a = "invalidcommand" -> "INVALIDCOMMAND"
      [] a = "quit" -> "QUIT"
      [] OTHER -> a

ToUpper(s) == [i \in 1..Len(s) |-> UpperAtom(s[i])]

SeqToSet(s) == {s[i] : i \in 1..Len(s)}

(***************************************************************************)
(* Configuration                                                           *)
(***************************************************************************)
supportedCaps ==
    << <<"server-time">>, <<"cap-notify">>, <<"multi-prefix">>,
       <<"userhost-in-names">>, <<"account-notify">>, <<"away-notify">>,
       <<"invite-notify">>, <<"extended-join">>, <<"chghost">>,
       <<"account-tag">>, <<"echo-message">>, <<"draft/languages">>,
       <<"sasl">> >>

\* The capacity of Client.events and of Client.sends
ChanCap == 64

\* Config.WithDefaults for the fields the model reads.  Alternatives are given
\* non-empty, so the default list Nick1..Nick9 is not built.
WithDefaults(c) ==
    [c EXCEPT !.Nick = IF @ = <<>> THEN <<"IrcUser">> ELSE @,
              !.User = IF @ = <<>> THEN <<"IrcUser">> ELSE @,
              !.RealName = IF @ = <<>> THEN <<"...">> ELSE @,
              !.SendRate = IF @ <= 0 THEN 2 ELSE @]

TestConfig ==
    [Nick |-> <<"Test">>, User |-> <<"Tester">>, RealName |-> <<>>,
     Alternatives |-> << <<"Test", "2">>, <<"Test", "3">> >>,
     Password |-> <<>>, SASL |-> FALSE, SendRate |-> 0]

PasswordConfig == [TestConfig EXCEPT !.Password = <<"hunter2">>]

\* A configuration with SASL credentials
SaslConfig == [TestConfig EXCEPT !.SASL = TRUE]

\* The clock counts ticks; a second is TicksPerSecond of them
TicksPerSecond == 2

\* time.Time{}, the zero time: more than a second before any reading of the clock
ZeroTime == 0 - TicksPerSecond

\* time.NewTicker(time.Second * 30)
TickerPeriod == 30 * TicksPerSecond

\* "lastSend > time.Second*120"
PingAfter == 120 * TicksPerSecond

\* No line has been written to a connection yet
NeverWritten == 0 - 1

\* mathRand.Int31n(99999) formatted with %05d: the values the model draws
RandomSuffixes == {"00768", "31337"}

(***************************************************************************)
(* Events                                                                  *)
(***************************************************************************)
\* NewEvent(kind, verb); rx numbers the lines read from a socket, id the
\* events of EmitSync (0: none) and conn names the connection whose reader
\* emitted the event; the three only label the event for the properties.
NewEvent(kind, verb, name) ==
    [kind |-> kind, verb |-> verb, name |-> name, nick |-> <<>>,
     args |-> <<>>, text |-> <<>>, targets |-> <<>>,
     user |-> <<>>, host |-> <<>>, account |-> <<>>,
     preventedDefault |-> FALSE, rx |-> 0, id |-> 0, conn |-> 0]

\* NewErrorEvent(code, text)
NewErrorEvent(code) == NewEvent("error", <<code>>, "error." \o code)

\* strings.ToLower on the verbs of the model's server lines
LowerVerb(v) ==
    CASE v = "CAP" -> "cap"
      [] v = "PING" -> "ping"
      [] v = "JOIN" -> "join"
      [] v = "PART" -> "part"
      [] v = "KICK" -> "kick"
      [] v = "MODE" -> "mode"
      [] v = "NOTICE" -> "notice"
      [] v = "CHGHOST" -> "chghost"
      [] v = "NICK" -> "nick"
      [] v = "PRIVMSG" -> "privmsg"
      [] v = "QUIT" -> "quit"
      [] v = "ACTION" -> "action"
      [] v = "AUTHENTICATE" -> "authenticate"
      [] OTHER -> v

\* An event as ParsePacket returns it for a server line that is no CTCP
\* message: the verb as received, the name in lower case
Packet(verb, source, args, text) ==
    [NewEvent("packet", <<verb>>, "packet." \o LowerVerb(verb)) EXCEPT
        !.nick = source, !.args = args, !.text = text]

\* The event of a line with the prefix source!u@h and, if a is not empty,
\* the tag account=a
PacketFrom(verb, source, u, h, a, args, text) ==
    [Packet(verb, source, args, text) EXCEPT !.user = u, !.host = h, !.account = a]

\* Event.Arg(index), index counted from 0
Arg(e, index) ==
    IF index < 0 \/ index > Len(e.args) THEN <<>>
    ELSE IF index = Len(e.args) THEN e.text
    ELSE e.args[index + 1]

(***************************************************************************)
(* The client as a record: the handlers below are functions from the       *)
(* client's state to its state after the call, applied in the order of the *)
(* statements of the code.  ev and sentCapEnd are handleEvent's event and  *)
(* local variable.                                                         *)
(***************************************************************************)
\* The pointer of the status target (0 is nil)
StatusPtr == 2

\* Client.ID(), which is also the ID of every Query the client makes
ClientID == 1

Me ==
    [conn |-> conn, open |-> open, events |-> events, spill |-> spill,
     sends |-> sends, sendSpill |-> sendSpill, done |-> done,
     capEnabled |-> capEnabled, capData |-> capData,
     capsRequested |-> capsRequested, nick |-> nick, user |-> user,
     host |-> host, quit |-> quit, ready |-> ready, isupport |-> isupport,
     values |-> values, targets |-> targets, handlers |-> handlers,
     destroyed |-> destroyed, closed |-> closed, panicked |-> panicked,
     nextId |-> nextId,
     hist |-> hist, hlog |-> hlog, out |-> out, queued |-> queued,
     api |-> api, mutex |-> mutex, ein |-> ein, now |-> now, sw |-> sw,
     ul |-> ul, lib |-> lib, ticker |-> ticker, enb |-> enb, sh |-> sh,
     ev |-> NewEvent("", <<>>, ""), sentCapEnd |-> FALSE, rand |-> "",
     isChannel |-> FALSE]

Commit(c) ==
    /\ conn' = c.conn
    /\ open' = c.open
    /\ events' = c.events
    /\ spill' = c.spill
    /\ sends' = c.sends
    /\ sendSpill' = c.sendSpill
    /\ done' = c.done
    /\ capEnabled' = c.capEnabled
    /\ capData' = c.capData
    /\ capsRequested' = c.capsRequested
    /\ nick' = c.nick
    /\ user' = c.user
    /\ host' = c.host
    /\ quit' = c.quit
    /\ ready' = c.ready
    /\ isupport' = c.isupport
    /\ values' = c.values
    /\ targets' = c.targets
    /\ handlers' = c.handlers
    /\ destroyed' = c.destroyed
    /\ closed' = c.closed
    /\ panicked' = c.panicked
    /\ nextId' = c.nextId
    /\ hist' = c.hist
    /\ hlog' = c.hlog
    /\ out' = c.out
    /\ queued' = c.queued
    /\ api' = c.api
    /\ mutex' = c.mutex
    /\ ein' = c.ein
    /\ now' = c.now
    /\ sw' = c.sw
    /\ ul' = c.ul
    /\ lib' = c.lib
    /\ ticker' = c.ticker
    /\ enb' = c.enb
    /\ sh' = c.sh

\* A run-time panic (index out of range, nil dereference) in a goroutine
Panic(c) == [c EXCEPT !.panicked = "handleEvent"]

\* Client.EmitNonBlocking: nothing once the context is cancelled; the inbox if
\* it has room; otherwise a goroutine that sends the event later.
EmitNonBlocking(c, e) ==
    IF c.destroyed THEN c
    ELSE IF Len(c.events) < ChanCap THEN [c EXCEPT !.events = Append(@, e)]
    ELSE [c EXCEPT !.spill = Append(@, e)]

\* Client.Disconnect
Disconnect(c, markAsQuit) ==
    LET c1 == IF markAsQuit THEN [c EXCEPT !.quit = TRUE] ELSE c
    IN  IF c1.conn = 0 THEN c1 ELSE [c1 EXCEPT !.open = @ \ {c1.conn}]

LogSend(c, line, res) ==
    [c EXCEPT !.out = Append(@, [line |-> line, conn |-> c.conn, res |-> res,
                                 at |-> Len(c.hist)]),
              !.ticker.wrote = IF res = "ok" THEN c.now ELSE @]

\* Client.Send: ErrNoConnection without a connection; a write to a closed
\* connection fails, emits error.write and disconnects.
Send(c, line) ==
    IF c.conn = 0 THEN LogSend(c, line, "noconn")
    ELSE IF c.conn \in c.open THEN LogSend(c, line, "ok")
    ELSE Disconnect(EmitNonBlocking(LogSend(c, line, "err"), NewErrorEvent("write")), FALSE)

\* Client.SendQueued
SendQueued(c, line) ==
    LET c1 == [c EXCEPT !.queued = Append(@, [line |-> line, at |-> Len(c.hist),
                                              after |-> Len(c.hlog)])]
    IN  IF Len(c1.sends) < ChanCap THEN [c1 EXCEPT !.sends = Append(@, line)]
        ELSE [c1 EXCEPT !.sendSpill = Append(@, line)]

\* What the log of calls keeps of a call: the method, the event or target it
\* was given, what it returned, and whether the client was destroyed
ApiCall(op, id, ptr, res) ==
    [op |-> op, id |-> id, ptr |-> ptr, res |-> res, destroyed |-> destroyed]

\* Client.Value / Client.SetValue on the keys the client uses
SetValue(c, key, value) == [c EXCEPT !.values[key] = value]

NoValues ==
    [lockNickChange |-> FALSE, primedNickChange |-> <<>>, usingMethod |-> <<>>,
     nick |-> <<>>, app |-> <<>>]

(***************************************************************************)
(* Targets                                                                 *)
(***************************************************************************)
\* list.New(isupport): no users, autosort on
NoUsers == [users |-> <<>>, autosort |-> TRUE]

\* A target: its address, ID(), Kind(), Name(), Channel.parted and
\* Channel.userlist; the userlist of a Query holds Query.user
NewTarget(ptr, id, kind, name) ==
    [ptr |-> ptr, id |-> id, kind |-> kind, name |-> name, parted |-> FALSE,
     userlist |-> NoUsers]

StatusTarget == NewTarget(StatusPtr, StatusPtr, "status", <<"Status">>)

LowerAtom(a) ==
    CASE a = "Test" -> "test"
      [] a = "TEST" -> "test"
      [] a = "ME" -> "me"
      [] a = "Other" -> "other"
      [] a = "Third" -> "third"
      [] a = "Renamed" -> "renamed"
      [] a = "Gisle" -> "gisle"
      [] a = "Test768" -> "test768"
      [] a = "A" -> "a"
      [] a = "B" -> "b"
      [] OTHER -> a

\* strings.EqualFold
EqualFold(a, b) ==
    [i \in 1..Len(a) |-> LowerAtom(a[i])] = [i \in 1..Len(b) |-> LowerAtom(b[i])]

\* Client.Target(kind, name): the index of the first match, 0 for nil
TargetIndex(c, kind, name) ==
    IF \E i \in 1..Len(c.targets) :
          c.targets[i].kind = kind /\ EqualFold(name, c.targets[i].name)
    THEN CHOOSE i \in 1..Len(c.targets) :
          /\ c.targets[i].kind = kind /\ EqualFold(name, c.targets[i].name)
          /\ \A j \in 1..(i - 1) :
                ~(c.targets[j].kind = kind /\ EqualFold(name, c.targets[j].name))
    ELSE 0

\* Client.Channel(name): the pointer of the channel target, 0 for nil
ChannelPtr(c, name) ==
    LET i == TargetIndex(c, "channel", name)
    IN  IF i = 0 THEN 0 ELSE c.targets[i].ptr

\* Client.TargetByID(id): the index of the first target with that ID, 0 for nil
TargetByID(c, id) ==
    IF \E i \in 1..Len(c.targets) : c.targets[i].id = id
    THEN CHOOSE i \in 1..Len(c.targets) :
            c.targets[i].id = id /\ \A j \in 1..(i - 1) : c.targets[j].id # id
    ELSE 0

\* The error AddTarget returns ("" for nil): the first member that is the
\* target itself or has its kind and name decides
AddTargetErr(c, target) ==
    LET hits == {i \in 1..Len(c.targets) :
                    \/ c.targets[i].ptr = target.ptr
                    \/ c.targets[i].kind = target.kind /\ c.targets[i].name = target.name}
    IN  IF hits = {} THEN ""
        ELSE LET i == CHOOSE i \in hits : \A j \in hits : i <= j
             IN  IF c.targets[i].ptr = target.ptr THEN "ErrTargetAlreadyAdded"
                 ELSE "ErrTargetConflict"

\* The error RemoveTarget returns ("" for nil)
RemoveTargetErr(c, ptr) ==
    IF ptr = StatusPtr THEN "ErrTargetIsStatus"
    ELSE IF \E i \in 1..Len(c.targets) : c.targets[i].ptr = ptr THEN ""
    ELSE "ErrTargetNotFound"

\* Client.AddTarget without the loop over the members
AddTargetUnchecked(c, target) ==
    EmitNonBlocking(
        [c EXCEPT !.targets = Append(@, target)],
        [NewEvent("hook", <<"add_target">>, "hook.add_target") EXCEPT
            !.args = << <<ToString(target.id)>>, <<target.kind>>, target.name >>,
            !.targets = <<target.ptr>>])

\* Client.AddTarget
AddTarget(c, target) ==
    IF \E i \in 1..Len(c.targets) :
          \/ c.targets[i].ptr = target.ptr
          \/ c.targets[i].kind = target.kind /\ c.targets[i].name = target.name
    THEN c
    ELSE EmitNonBlocking(
            [c EXCEPT !.targets = Append(@, target)],
            [NewEvent("hook", <<"add_target">>, "hook.add_target") EXCEPT
                !.args = << <<ToString(target.id)>>, <<target.kind>>, target.name >>,
                !.targets = <<target.ptr>>])

\* Client.RemoveTarget
RemoveTarget(c, ptr) ==
    IF ptr = StatusPtr THEN c
    ELSE IF \E i \in 1..Len(c.targets) : c.targets[i].ptr = ptr
    THEN LET i == CHOOSE i \in 1..Len(c.targets) : c.targets[i].ptr = ptr
             t == c.targets[i]
             n == Len(c.targets)
             c1 == EmitNonBlocking(c,
                     [NewEvent("hook", <<"remove_target">>, "hook.remove_target")
                        EXCEPT !.args = << <<ToString(t.id)>>, <<t.kind>>, t.name >>])
             c2 == [c1 EXCEPT !.targets =
                      SubSeq([c.targets EXCEPT ![i] = c.targets[n]], 1, n - 1)]
         IN  IF t.kind = "channel" /\ ~t.parted
             THEN SendQueued(c2, <<"PART ">> \o t.name)
             ELSE c2
    ELSE c

(***************************************************************************)
(* Userlists (list/list.go) and what they ask of ISupport                  *)
(***************************************************************************)
\* list.User; modes and prefixes are strings of one-letter atoms
NewUser(n, u, h, a) ==
    [nick |-> n, user |-> u, host |-> h, account |-> a, modes |-> <<>>,
     prefixes |-> <<>>, prefixedNick |-> n]

\* rune(0)
NoRune == ""

\* ISupport.Mode(prefix)
ModeOf(is, prefix) ==
    IF \E p \in is.prefixes : p[1] = prefix
    THEN (CHOOSE p \in is.prefixes : p[1] = prefix)[2]
    ELSE NoRune

\* ISupport.Prefix(mode)
PrefixOf(is, mode) ==
    IF \E p \in is.prefixes : p[2] = mode
    THEN (CHOOSE p \in is.prefixes : p[2] = mode)[1]
    ELSE NoRune

\* The letters of s in the order of `order`, letters outside it left out
RECURSIVE SortLetters(_, _)
SortLetters(order, s) ==
    IF order = <<>> THEN <<>>
    ELSE SelectSeq(s, LAMBDA x : x = Head(order)) \o SortLetters(Tail(order), s)

\* ISupport.SortModes
SortModes(is, modes) == SortLetters(is.modeOrder, modes)

\* ISupport.SortPrefixes
SortPrefixes(is, prefixes) == SortLetters(is.prefixOrder, prefixes)

\* ISupport.Prefixes(modes)
RECURSIVE PrefixesOf(_, _)
PrefixesOf(is, modes) ==
    IF modes = <<>> THEN <<>>
    ELSE (IF PrefixOf(is, Head(modes)) # Head(modes)
          THEN <<PrefixOf(is, Head(modes))>> ELSE <<>>) \o PrefixesOf(is, Tail(modes))

\* ISupport.IsPermissionMode
IsPermissionMode(is, flag) == \E i \in 1..Len(is.modeOrder) : is.modeOrder[i] = flag

\* ISupport.IsModeHigher(current, other)
IsModeHigher(is, current, other) ==
    LET at == { i \in 1..Len(is.modeOrder) : is.modeOrder[i] \in {current, other} }
    IN  IF current = other \/ current = NoRune THEN FALSE
        ELSE IF other = NoRune THEN TRUE
        ELSE at # {} /\ is.modeOrder[CHOOSE i \in at : \A j \in at : i <= j] = current

\* User.HighestMode
HighestMode(u) == IF u.modes = <<>> THEN NoRune ELSE u.modes[1]

\* User.updatePrefixedNick
UpdatePrefixedNick(u) ==
    [u EXCEPT !.prefixedNick = IF u.prefixes = <<>> THEN u.nick
                               ELSE <<u.prefixes[1]>> \o u.nick]

\* strings.ToLower on a nick, the key of List.index
LowerNick(n) == [i \in 1..Len(n) |-> LowerAtom(n[i])]

\* The lower-case atoms of the model's nicks in the order of their bytes
AtomOrder ==
    <<"a", "b", "c", "gisle", "other", "renamed", "test", "test768", "third">>

\* a < b on strings
RECURSIVE LessStr(_, _)
LessStr(a, b) ==
    IF b = <<>> THEN FALSE
    ELSE IF a = <<>> THEN TRUE
    ELSE IF Head(a) = Head(b) THEN LessStr(Tail(a), Tail(b))
    ELSE IndexOfAtom(AtomOrder, Head(a)) < IndexOfAtom(AtomOrder, Head(b))

\* The less function of List.sort
UserLess(is, a, b) ==
    IF HighestMode(a) # HighestMode(b)
    THEN IsModeHigher(is, HighestMode(a), HighestMode(b))
    ELSE LessStr(LowerNick(a.nick), LowerNick(b.nick))

\* sort.Slice(list.users, less): u is put before the first user it is less than
RECURSIVE SortInto(_, _, _)
SortInto(is, sorted, u) ==
    IF sorted = <<>> THEN <<u>>
    ELSE IF UserLess(is, u, Head(sorted)) THEN <<u>> \o sorted
    ELSE <<Head(sorted)>> \o SortInto(is, Tail(sorted), u)

RECURSIVE SortUsers(_, _)
SortUsers(is, users) ==
    IF users = <<>> THEN <<>>
    ELSE SortInto(is, SortUsers(is, SubSeq(users, 1, Len(users) - 1)), users[Len(users)])

\* List.sort
ListSort(is, l) == [l EXCEPT !.users = SortUsers(is, @)]

\* The place of the user list.index has for nick, 0 for none
UserIndex(l, n) ==
    IF \E i \in 1..Len(l.users) : LowerNick(l.users[i].nick) = LowerNick(n)
    THEN CHOOSE i \in 1..Len(l.users) : LowerNick(l.users[i].nick) = LowerNick(n)
    ELSE 0

\* List.User(nick), its second result
HasUser(l, n) == UserIndex(l, n) # 0

\* List.Insert, the user as it is stored
CleanUser(is, u) ==
    IF Len(u.modes) > 0
    THEN LET modes == SortModes(is, u.modes)
         IN  UpdatePrefixedNick([u EXCEPT
                !.modes = modes,
                !.prefixes = IF Len(u.prefixes) < Len(modes) THEN PrefixesOf(is, modes)
                             ELSE SortPrefixes(is, u.prefixes)])
    ELSE UpdatePrefixedNick([u EXCEPT !.prefixes = <<>>])

\* List.Insert
ListInsert(is, l, newUser) ==
    IF HasUser(l, newUser.nick) THEN l
    ELSE LET l1 == [l EXCEPT !.users = Append(@, CleanUser(is, newUser))]
         IN  IF l.autosort THEN ListSort(is, l1) ELSE l1

\* The number of leading characters of a NAMES token that are prefixes
RECURSIVE LeadingPrefixes(_, _)
LeadingPrefixes(is, token) ==
    IF token = <<>> \/ ModeOf(is, Head(token)) = NoRune THEN 0
    ELSE 1 + LeadingPrefixes(is, Tail(token))

\* The user List.InsertFromNamesToken builds; a token of prefixes only keeps
\* them in the nick
NamesTokenUser(is, token) ==
    LET k == LeadingPrefixes(is, token)
        rest == IF k = Len(token) THEN token ELSE SubSeq(token, k + 1, Len(token))
        split == SplitStr(rest, "!")
        userhost == IF Len(split) = 2 THEN SplitStr(split[2], "@") ELSE <<>>
    IN  [NewUser(split[1],
                 IF Len(userhost) = 2 THEN userhost[1] ELSE <<>>,
                 IF Len(userhost) = 2 THEN userhost[2] ELSE <<>>, <<>>)
           EXCEPT !.prefixes = SubSeq(token, 1, k),
                  !.modes = [i \in 1..k |-> ModeOf(is, token[i])]]

\* List.InsertFromNamesToken
InsertFromNamesToken(is, l, token) == ListInsert(is, l, NamesTokenUser(is, token))

\* strings.Replace(s, x, "", 1) for a one-letter x
ReplaceOnce(s, x) ==
    IF IndexOfAtom(s, x) = 0 THEN s
    ELSE SubSeq(s, 1, IndexOfAtom(s, x) - 1) \o SubSeq(s, IndexOfAtom(s, x) + 1, Len(s))

\* The end of List.AddMode and List.RemoveMode: the user at i becomes u, and
\* the list is sorted if autosort is on and the highest mode changed
ModesChanged(is, l, i, u) ==
    LET l1 == [l EXCEPT !.users[i] = UpdatePrefixedNick(u)]
    IN  IF l.autosort /\ HighestMode(l.users[i]) # HighestMode(u)
        THEN ListSort(is, l1) ELSE l1

\* List.AddMode with the mode put last, the modes not sorted again
ListAddModeUnsorted(is, l, n, mode) ==
    LET i == UserIndex(l, n)
    IN  IF ~IsPermissionMode(is, mode) \/ i = 0 THEN l
        ELSE IF IndexOfAtom(l.users[i].modes, mode) # 0 THEN l
        ELSE LET modes == Append(l.users[i].modes, mode)
             IN  ModesChanged(is, l, i,
                    [l.users[i] EXCEPT !.modes = modes,
                                       !.prefixes = PrefixesOf(is, modes)])

\* List.AddMode
ListAddMode(is, l, n, mode) ==
    LET i == UserIndex(l, n)
    IN  IF ~IsPermissionMode(is, mode) \/ i = 0 THEN l
        ELSE IF IndexOfAtom(l.users[i].modes, mode) # 0 THEN l
        ELSE LET modes == SortModes(is, Append(l.users[i].modes, mode))
             IN  ModesChanged(is, l, i,
                    [l.users[i] EXCEPT !.modes = modes,
                                       !.prefixes = PrefixesOf(is, modes)])

\* List.RemoveMode
ListRemoveMode(is, l, n, mode) ==
    LET i == UserIndex(l, n)
    IN  IF ~IsPermissionMode(is, mode) \/ i = 0 THEN l
        ELSE IF IndexOfAtom(l.users[i].modes, mode) = 0 THEN l
        ELSE ModesChanged(is, l, i,
                [l.users[i] EXCEPT !.modes = ReplaceOnce(@, mode),
                                   !.prefixes = ReplaceOnce(@, PrefixOf(is, mode))])

\* What List.AddMode and List.RemoveMode return
ModeOk(is, l, n, mode) == IsPermissionMode(is, mode) /\ HasUser(l, n)

\* List.Remove
ListRemove(l, n) ==
    [l EXCEPT !.users = SelectSeq(@, LAMBDA u : LowerNick(u.nick) # LowerNick(n))]

\* List.Rename without the look at the user the new nick may already have
RenameOkUnchecked(l, from, newNick) == HasUser(l, from)

\* What List.Rename returns
RenameOk(l, from, newNick) ==
    HasUser(l, from) /\ (from = newNick \/ ~HasUser(l, newNick))

\* List.Rename
ListRename(is, l, from, newNick) ==
    IF ~RenameOk(l, from, newNick) \/ from = newNick THEN l
    ELSE LET l1 == [l EXCEPT !.users[UserIndex(l, from)] =
                       UpdatePrefixedNick([@ EXCEPT !.nick = newNick])]
         IN  IF l.autosort THEN ListSort(is, l1) ELSE l1

\* The first user List.Patch finds for the nick, 0 for none
PatchIndex(l, n) ==
    IF \E i \in 1..Len(l.users) : EqualFold(n, l.users[i].nick)
    THEN CHOOSE i \in 1..Len(l.users) :
            /\ EqualFold(n, l.users[i].nick)
            /\ \A j \in 1..(i - 1) : ~EqualFold(n, l.users[j].nick)
    ELSE 0

\* List.Patch with UserPatch{User, Host, Account}
ListPatch(l, n, newUser, newHost, newAccount) ==
    IF PatchIndex(l, n) = 0 THEN l
    ELSE [l EXCEPT !.users[PatchIndex(l, n)] =
            [@ EXCEPT !.user = IF newUser # <<>> THEN newUser ELSE @,
                      !.host = IF newHost # <<>> THEN newHost ELSE @,
                      !.account = IF newAccount # <<>> THEN newAccount ELSE @]]

\* List.SetAutoSort without its sort
SetAutoSortUnsorted(is, l, autosort) == [l EXCEPT !.autosort = autosort]

\* List.SetAutoSort
SetAutoSort(is, l, autosort) == ListSort(is, [l EXCEPT !.autosort = autosort])

\* ISupport.ModeTakesArgument(flag, plus); it indexes ChannelModes[0] and [1]
\* for a flag that is no permission mode
ModeTakesArgument(is, flag, plus) ==
    \/ IsPermissionMode(is, flag)
    \/ IndexOfAtom(is.channelModes[1], flag) # 0
    \/ IndexOfAtom(is.channelModes[2], flag) # 0
    \/ plus /\ IndexOfAtom(is.channelModes[2], flag) # 0

\* ModeTakesArgument indexes past the end of ChannelModes
ModeTakesArgumentPanics(is, flag) ==
    /\ ~IsPermissionMode(is, flag)
    /\ \/ Len(is.channelModes) = 0
       \/ Len(is.channelModes) = 1 /\ IndexOfAtom(is.channelModes[1], flag) = 0

\* The loop of case "packet.mode" in Channel.Handle from the letters chars on:
\* the userlist it leaves, and whether ModeTakesArgument panicked
RECURSIVE ModeWalk(_, _, _, _, _, _)
ModeWalk(is, l, e, chars, plus, argIndex) ==
    IF chars = <<>> THEN [list |-> l, panicked |-> FALSE]
    ELSE LET ch == Head(chars)
         IN  IF ch = "+" THEN ModeWalk(is, l, e, Tail(chars), TRUE, argIndex)
             ELSE IF ch = "-" THEN ModeWalk(is, l, e, Tail(chars), FALSE, argIndex)
             ELSE IF ModeTakesArgumentPanics(is, ch)
             THEN [list |-> l, panicked |-> TRUE]
             ELSE LET takes == ModeTakesArgument(is, ch, plus)
                      arg == IF takes THEN Arg(e, argIndex) ELSE <<>>
                      l1 == IF ~IsPermissionMode(is, ch) THEN l
                            ELSE IF plus THEN ListAddMode(is, l, arg, ch)
                            ELSE ListRemoveMode(is, l, arg, ch)
                  IN  ModeWalk(is, l1, e, Tail(chars), plus,
                               IF takes THEN argIndex + 1 ELSE argIndex)

\* The tokens of a 353, inserted one by one
RECURSIVE InsertTokens(_, _, _)
InsertTokens(is, l, tokens) ==
    IF tokens = <<>> THEN l
    ELSE InsertTokens(is, InsertFromNamesToken(is, l, Head(tokens)), Tail(tokens))

\* Channel.Handle, on the userlist l of the channel
ChannelHandle(is, l, e) ==
    CASE e.name = "packet.join" ->
            ListInsert(is, l, NewUser(e.nick, e.user, e.host,
                IF Arg(e, 1) \in {<<>>, <<"*">>} THEN <<>> ELSE Arg(e, 1)))
      [] e.name \in {"packet.part", "packet.quit"} -> ListRemove(l, e.nick)
      [] e.name = "packet.kick" -> ListRemove(l, Arg(e, 1))
      [] e.name = "packet.nick" -> ListRename(is, l, e.nick, Arg(e, 0))
      [] e.name = "packet.chghost" -> ListPatch(l, e.nick, Arg(e, 0), Arg(e, 1), <<>>)
      [] e.name = "packet.353" ->
            InsertTokens(is, SetAutoSort(is, l, FALSE), SplitStr(e.text, " "))
      [] e.name = "packet.366" -> SetAutoSort(is, l, TRUE)
      [] e.name = "packet.mode" -> ModeWalk(is, l, e, Arg(e, 1), FALSE, 2).list
      [] e.name \in {"packet.privmsg", "ctcp.action"} ->
            ListPatch(l, e.nick, <<>>, <<>>, e.account)
      [] OTHER -> l

\* Query.Handle, on the query t; Query.Name() is the nick of its user
QueryHandle(t, e) ==
    CASE e.name = "packet.nick" ->
            [t EXCEPT !.name = Arg(e, 0), !.userlist.users[1].nick = Arg(e, 0)]
      [] e.name = "packet.chghost" ->
            [t EXCEPT !.userlist.users[1].user = Arg(e, 0),
                      !.userlist.users[1].host = Arg(e, 1)]
      [] OTHER -> t

\* Target.Handle(event, client) on the target at ptr.  Status.Handle is empty.
TargetHandle(c, ptr) ==
    LET c1 == [c EXCEPT !.targets =
                 [i \in 1..Len(@) |->
                    IF @[i].ptr # ptr THEN @[i]
                    ELSE CASE @[i].kind = "channel" ->
                                 [@[i] EXCEPT !.userlist =
                                     ChannelHandle(c.isupport, @, c.ev)]
                           [] @[i].kind = "query" -> QueryHandle(@[i], c.ev)
                           [] OTHER -> @[i]]]
    IN  IF \E i \in 1..Len(c.targets) :
              /\ c.targets[i].ptr = ptr /\ c.targets[i].kind = "channel"
              /\ c.ev.name = "packet.mode"
              /\ ModeWalk(c.isupport, c.targets[i].userlist, c.ev, Arg(c.ev, 1),
                          FALSE, 2).panicked
        THEN Panic(c1) ELSE c1

\* Client.handleInTarget
handleInTarget(c, ptr) ==
    IF ptr = 0 THEN c
    ELSE TargetHandle([c EXCEPT !.ev.targets = Append(@, ptr)], ptr)

(***************************************************************************)
(* ISUPPORT registry (isupport/isupport.go)                                *)
(***************************************************************************)
NoISupport ==
    [raw |-> {}, prefixOrder |-> <<>>, modeOrder |-> <<>>, prefixes |-> {},
     channelModes |-> <<>>]

RawGet(raw, key) ==
    IF \E p \in raw : p[1] = key THEN (CHOOSE p \in raw : p[1] = key)[2] ELSE <<>>

\* ISupport.Set(key, value) applied to the client's registry; the slice and
\* index expressions of the PREFIX case panic on a value that is not
\* "(" modes ")" prefixes with as many prefixes as modes.
ISupportSet(c, key0, value) ==
    LET key == ToUpper(key0)
        c1 == [c EXCEPT !.isupport.raw = {p \in @ : p[1] # key} \cup {<<key, value>>}]
    IN  IF key = <<"PREFIX">>
        THEN IF Len(value) < 1 THEN Panic(c1)
             ELSE LET split == SplitN2(Tail(value), ")")
                  IN  IF Len(split) < 2 THEN Panic(c1)
                      ELSE IF Len(split[2]) < Len(split[1]) THEN Panic(c1)
                      ELSE [c1 EXCEPT
                              !.isupport.prefixOrder = split[2],
                              !.isupport.modeOrder = split[1],
                              !.isupport.prefixes =
                                 {<<split[2][i], split[1][i]>> : i \in 1..Len(split[1])}]
        ELSE IF key = <<"CHANMODES">>
        THEN [c1 EXCEPT !.isupport.channelModes = SplitStr(value, ",")]
        ELSE c1

\* ISupport.IsChannel(targetName) is c.isChannel after the call; targetName[0]
\* panics on the empty name.
IsChannel(c, targetName) ==
    IF Len(targetName) = 0 THEN [Panic(c) EXCEPT !.isChannel = FALSE]
    ELSE [c EXCEPT !.isChannel =
            \E i \in 1..Len(RawGet(c.isupport.raw, <<"CHANTYPES">>)) :
                RawGet(c.isupport.raw, <<"CHANTYPES">>)[i] = targetName[1]]

(***************************************************************************)
(* Client.handleEvent, one operator per case of its switch                 *)
(***************************************************************************)
\* Client.lastSend: no statement of the package assigns it, so it is the zero
\* time.Time whenever it is read
LastSend(c) == "zero"

\* time.Since(t) > d; time.Since of the zero Time is the largest Duration
SinceExceeds(c, t, d) == IF t = "zero" THEN TRUE ELSE c.now - t > d

\* case "hook.tick"; the three mathRand.Int63() are the one value c.rand
HandleTick(c) ==
    IF SinceExceeds(c, LastSend(c), PingAfter)
    THEN Send(c, <<"PING :", c.rand>>)
    ELSE c

\* case "packet.ping"
HandlePing(c) ==
    LET withArgs == <<"PONG">> \o
            (IF c.ev.args = <<>> THEN <<>> ELSE <<" ">> \o JoinStr(c.ev.args, <<" ">>))
    IN  Send(c, IF c.ev.text # <<>> THEN withArgs \o <<" :">> \o c.ev.text ELSE withArgs)

\* case "packet.001"
HandleWelcome(c) ==
    IF Len(c.ev.args) < 1 THEN Panic(c)
    ELSE Send([c EXCEPT !.nick = c.ev.args[1]], <<"WHO ">> \o c.ev.args[1])

\* A rotation that always answers with the first alternative
NextAlternativeFirst(rejected, prev, alts) ==
    IF alts = <<>> THEN <<>> ELSE Head(alts)

\* The loop over config.Alternatives of the nick rotation: "AltN" -> "AltN+1"
RECURSIVE NextAlternative(_, _, _)
NextAlternative(rejected, prev, alts) ==
    IF alts = <<>> THEN <<>>
    ELSE IF rejected = prev THEN Head(alts)
    ELSE NextAlternative(rejected, Head(alts), Tail(alts))

\* A rotation that sends its NICK whatever internal.lockNickChange says
HandleNickRejectedUnlocked(c) ==
    IF c.nick # <<>> THEN c
    ELSE IF Len(c.ev.args) < 2 THEN Panic(c)
    ELSE LET alt == NextAlternative(c.ev.args[2], config.Nick, config.Alternatives)
             newNick == IF alt = <<>> THEN config.Nick \o <<c.rand>> ELSE alt
         IN  Send(c, <<"NICK ">> \o newNick)

\* case "packet.431", "packet.432", "packet.433", "packet.436"
HandleNickRejected(c) ==
    IF c.nick # <<>> THEN c
    ELSE IF Len(c.ev.args) < 2 THEN Panic(c)
    ELSE LET alt == NextAlternative(c.ev.args[2], config.Nick, config.Alternatives)
             newNick == IF alt = <<>> THEN config.Nick \o <<c.rand>> ELSE alt
         IN  IF c.values.lockNickChange
             THEN SetValue(c, "primedNickChange", newNick)
             ELSE Send(c, <<"NICK ">> \o newNick)

\* case "packet.005"
RECURSIVE SetTokens(_, _)
SetTokens(c, tokens) ==
    IF tokens = <<>> \/ c.panicked # "" THEN c
    ELSE LET kvpair == SplitStr(Head(tokens), "=")
         IN  SetTokens(
                IF Len(kvpair) = 2 THEN ISupportSet(c, kvpair[1], kvpair[2])
                ELSE ISupportSet(c, kvpair[1], <<>>),
                Tail(tokens))

HandleISupport(c) ==
    IF Len(c.ev.args) < 1 THEN Panic(c) ELSE SetTokens(c, Tail(c.ev.args))

\* case "packet.352"
HandleWhoReply(c) ==
    IF Len(c.ev.args) < 6 THEN Panic(c)
    ELSE IF c.ev.args[6] = c.nick
    THEN [c EXCEPT !.user = c.ev.args[3], !.host = c.ev.args[4]]
    ELSE c

\* Client.handleInTargets(nick, event): a channel takes the event if nick is
\* empty or the source is on its userlist, a query if its user has the nick,
\* the status target if the source is the client's nick.
RECURSIVE handleInTargetsFrom(_, _, _)
handleInTargetsFrom(c, forNick, i) ==
    IF i > Len(c.targets) THEN c
    ELSE LET t == c.targets[i]
             takes == CASE t.kind = "status" -> c.nick = c.ev.nick
                        [] t.kind = "query" -> t.name = forNick
                        [] OTHER -> forNick = <<>> \/ HasUser(t.userlist, c.ev.nick)
         IN  handleInTargetsFrom(
                IF takes
                THEN [TargetHandle(c, t.ptr) EXCEPT !.ev.targets = Append(@, t.ptr)]
                ELSE c,
                forNick, i + 1)

handleInTargets(c, forNick) == handleInTargetsFrom(c, forNick, 1)

\* case "packet.chghost"
HandleChghost(c) ==
    IF c.ev.nick = c.nick /\ Len(c.ev.args) < 3 THEN Panic(c)
    ELSE handleInTargets(
            IF c.ev.nick = c.nick
            THEN [c EXCEPT !.user = c.ev.args[2], !.host = c.ev.args[3]]
            ELSE c,
            c.ev.nick)

\* case "packet.nick"
HandleNick(c) ==
    LET c1 == handleInTargets(c, c.ev.nick)
    IN  IF c.ev.nick = c1.nick THEN SetValue(c1, "nick", Arg(c.ev, 0)) ELSE c1

\* case "packet.privmsg", "ctcp.action"
HandlePrivmsg(c) ==
    LET targetName == Arg(c.ev, 0)
        found == TargetIndex(c, "query", c.ev.nick)
        query == [NewTarget(c.nextId, ClientID, "query", c.ev.nick) EXCEPT
                     !.userlist.users =
                        <<NewUser(c.ev.nick, c.ev.user, c.ev.host, c.ev.account)>>]
    IN  IF targetName = c.nick
        THEN IF found # 0 THEN handleInTarget(c, c.targets[found].ptr)
             ELSE handleInTarget(AddTarget([c EXCEPT !.nextId = @ + 1], query),
                                 query.ptr)
        ELSE IF ChannelPtr(c, targetName) # 0
             THEN handleInTarget(c, ChannelPtr(c, targetName))
             ELSE handleInTarget(c, StatusPtr)

\* case "packet.quit"
HandleQuit(c) == handleInTargets(c, c.ev.nick)

\* case "packet.353"
HandleNames(c) == handleInTarget(c, ChannelPtr(c, Arg(c.ev, 2)))

\* case "packet.366"
HandleEndOfNames(c) == handleInTarget(c, ChannelPtr(c, Arg(c.ev, 1)))

\* case "packet.mode"
HandleMode(c) ==
    LET c1 == IsChannel(c, Arg(c.ev, 0))
    IN  IF c1.panicked # "" \/ ~c1.isChannel THEN c1
        ELSE handleInTarget(c1, ChannelPtr(c1, Arg(c.ev, 0)))

\* case "packet.notice": a notice that names no channel goes to the status
\* target (the texts of the model's notices mention no channel).
HandleNotice(c) ==
    LET c1 == IsChannel(c, Arg(c.ev, 0))
        c2 == IF c1.panicked # "" THEN c1
              ELSE IF c1.isChannel THEN handleInTarget(c1, ChannelPtr(c1, Arg(c.ev, 0)))
              ELSE c1
    IN  IF c2.panicked # "" \/ Len(c2.ev.targets) # 0 THEN c2
        ELSE handleInTarget(c2, StatusPtr)

\* The loop over capTokens of case "LS"
RECURSIVE CapLSTokens(_, _)
CapLSTokens(c, tokens) ==
    IF tokens = <<>> THEN c
    ELSE LET split == SplitN2(Head(tokens), "=")
             key == split[1]
             c1 == IF Len(split) = 2
                   THEN [c EXCEPT !.capData =
                            {p \in @ : p[1] # key} \cup {<<key, split[2]>>}]
                   ELSE c
             c2 == IF key \in SeqToSet(supportedCaps)
                   THEN [c1 EXCEPT !.capsRequested = Append(@, key)]
                   ELSE c1
         IN  CapLSTokens(IF Len(key) = 0 THEN c ELSE c2, Tail(tokens))

\* case "LS" that does not wait for the last LS line
HandleCapLSEager(c, capTokens) ==
    LET c1 == CapLSTokens(SetValue(c, "lockNickChange", TRUE), capTokens)
    IN  IF Len(c1.capsRequested) > 0
        THEN Send(c1, <<"CAP REQ :">> \o JoinStr(c1.capsRequested, <<" ">>))
        ELSE Send([c1 EXCEPT !.sentCapEnd = TRUE], <<"CAP END">>)

\* case "LS" of "packet.cap"
HandleCapLS(c, capTokens) ==
    LET c1 == CapLSTokens(SetValue(c, "lockNickChange", TRUE), capTokens)
    IN  IF Len(c.ev.args) < 3 \/ c.ev.args[3] # <<"*">>
        THEN IF Len(c1.capsRequested) > 0
             THEN Send(c1, <<"CAP REQ :">> \o JoinStr(c1.capsRequested, <<" ">>))
             ELSE Send([c1 EXCEPT !.sentCapEnd = TRUE], <<"CAP END">>)
        ELSE c1

\* The special case "sasl" of an acknowledged token
AckSasl(c) ==
    IF ~config.SASL THEN c
    ELSE LET mechanisms == SplitStr(RawGet(c.capData, <<"sasl">>), ",")
         IN  IF mechanisms[1] = <<>> \/ <<"PLAIN">> \in SeqToSet(mechanisms)
             THEN SetValue(Send(c, <<"AUTHENTICATE ", "PLAIN">>), "usingMethod", <<"PLAIN">>)
             ELSE c

\* The loop over capTokens of case "ACK" (config.Languages is empty in the
\* model's configurations, so the case "draft/languages" breaks at once)
RECURSIVE CapAckTokens(_, _)
CapAckTokens(c, tokens) ==
    IF tokens = <<>> THEN c
    ELSE LET c1 == [c EXCEPT !.capEnabled = @ \cup {Head(tokens)}]
         IN  CapAckTokens(IF Head(tokens) = <<"sasl">> THEN AckSasl(c1) ELSE c1,
                          Tail(tokens))

\* case "ACK" that enables what was requested, whatever the line lists
HandleCapAckRequested(c, capTokens) ==
    LET c1 == CapAckTokens(c, c.capsRequested)
    IN  IF ~c1.ready THEN Send([c1 EXCEPT !.sentCapEnd = TRUE], <<"CAP END">>) ELSE c1

\* case "ACK" of "packet.cap"
HandleCapAck(c, capTokens) ==
    LET c1 == CapAckTokens(c, capTokens)
    IN  IF ~c1.ready THEN Send([c1 EXCEPT !.sentCapEnd = TRUE], <<"CAP END">>) ELSE c1

\* Removes the first occurrence of token from the requested list
RemoveFirst(list, token) ==
    IF \E i \in 1..Len(list) : list[i] = token
    THEN LET i == CHOOSE i \in 1..Len(list) :
                     list[i] = token /\ \A j \in 1..(i - 1) : list[j] # token
         IN  SubSeq(list, 1, i - 1) \o SubSeq(list, i + 1, Len(list))
    ELSE list

RECURSIVE RemoveAll(_, _)
RemoveAll(list, tokens) ==
    IF tokens = <<>> THEN list
    ELSE RemoveAll(RemoveFirst(list, Head(tokens)), Tail(tokens))

\* case "NAK" of "packet.cap"
HandleCapNak(c, capTokens) ==
    LET c1 == [c EXCEPT !.capsRequested = RemoveAll(@, capTokens)]
    IN  Send(c1, <<"CAP REQ :">> \o JoinStr(c1.capsRequested, <<" ">>))

\* case "NEW" of "packet.cap"
HandleCapNew(c, capTokens) ==
    LET requests == SelectSeq(capTokens, LAMBDA t : t \in SeqToSet(supportedCaps))
    IN  IF Len(requests) > 0
        THEN Send(c, <<"CAP REQ :">> \o JoinStr(requests, <<" ">>))
        ELSE c

\* case "DEL" of "packet.cap"
HandleCapDel(c, capTokens) ==
    [c EXCEPT !.capEnabled = @ \ SeqToSet(capTokens)]

\* case "packet.cap"
HandleCap(c) ==
    IF Len(c.ev.args) < 2 THEN Panic(c)
    ELSE LET capCommand == c.ev.args[2]
             capTokens == SplitStr(c.ev.text, " ")
         IN  CASE capCommand = <<"LS">> -> HandleCapLS(c, capTokens)
               [] capCommand = <<"ACK">> -> HandleCapAck(c, capTokens)
               [] capCommand = <<"NAK">> -> HandleCapNak(c, capTokens)
               [] capCommand = <<"NEW">> -> HandleCapNew(c, capTokens)
               [] capCommand = <<"DEL">> -> HandleCapDel(c, capTokens)
               [] OTHER -> c

\* case "packet.join".  For a channel the client does not hold, the nil
\* *Channel becomes a non-nil Target in handleInTarget and Channel.Handle
\* dereferences it.
HandleJoin(c) ==
    IF c.ev.nick = c.nick
    THEN LET channel == NewTarget(c.nextId, c.nextId, "channel", Arg(c.ev, 0))
         IN  handleInTarget(AddTarget([c EXCEPT !.nextId = @ + 1], channel), channel.ptr)
    ELSE IF ChannelPtr(c, Arg(c.ev, 0)) = 0 THEN Panic(c)
    ELSE handleInTarget(c, ChannelPtr(c, Arg(c.ev, 0)))

\* client.RemoveTarget(channel) without "channel.parted = true"
RemovedUnparted(c, ptr) == RemoveTarget(c, ptr)

\* channel.parted = true; client.RemoveTarget(channel)
PartedAndRemoved(c, ptr) ==
    RemoveTarget(
        [c EXCEPT !.targets =
            [i \in 1..Len(@) |->
                IF @[i].ptr = ptr THEN [@[i] EXCEPT !.parted = TRUE] ELSE @[i]]],
        ptr)

\* case "packet.part"
HandlePart(c) ==
    LET channel == ChannelPtr(c, Arg(c.ev, 0))
    IN  IF channel = 0 THEN c
        ELSE IF c.ev.nick = c.nick THEN PartedAndRemoved(c, channel)
        ELSE handleInTarget(c, channel)

\* case "packet.kick"
HandleKick(c) ==
    LET channel == ChannelPtr(c, Arg(c.ev, 0))
    IN  IF channel = 0 THEN c
        ELSE IF Arg(c.ev, 1) = c.nick THEN PartedAndRemoved(c, channel)
        ELSE handleInTarget(c, channel)

\* The Channel targets of the client, in the order of Client.targets
ChannelTargets(c) == SelectSeq(c.targets, LAMBDA t : t.kind = "channel")

\* case "packet.376", "packet.422" that rejoins the first channel only
HandleEndOfMotdFirst(c) ==
    LET chans == ChannelTargets(c)
        c1 == IF Len(chans) > 0 THEN Send(c, <<"JOIN ">> \o chans[1].name) ELSE c
    IN  EmitNonBlocking([c1 EXCEPT !.ready = TRUE],
                        NewEvent("hook", <<"ready">>, "hook.ready"))

\* case "packet.376", "packet.422"
HandleEndOfMotd(c) ==
    LET chans == ChannelTargets(c)
        names == [i \in 1..Len(chans) |-> chans[i].name]
        rejoinEvent == [NewEvent("info", <<"rejoin">>, "info.rejoin") EXCEPT
                           !.targets = [i \in 1..Len(chans) |-> chans[i].ptr]]
        c1 == IF Len(chans) > 0
              THEN EmitNonBlocking(Send(c, <<"JOIN ">> \o JoinStr(names, <<",">>)),
                                   rejoinEvent)
              ELSE c
    IN  EmitNonBlocking([c1 EXCEPT !.ready = TRUE],
                        NewEvent("hook", <<"ready">>, "hook.ready"))

\* Client.CapEnabled, on the variables
CapEnabled(cap) == cap \in capEnabled

\* What the history keeps of the client's state when handleEvent is entered
Snapshot(c) ==
    [nick |-> c.nick, locked |-> c.values.lockNickChange, ready |-> c.ready,
     conn |-> c.conn, targets |-> c.targets, handlers |-> c.handlers,
     destroyed |-> c.destroyed]

(***************************************************************************)
(* Client.handleEvent and the body of Client.handleEventLoop               *)
(***************************************************************************)
\* handleEvent is entered with the event e; r is what mathRand would return
Enter(c, e, r) ==
    [c EXCEPT !.hist = Append(@, e @@ [pre |-> Snapshot(c)]),
              !.ev = e, !.sentCapEnd = FALSE, !.rand = r,
              !.ticker.ticks =
                  IF e.verb = <<"tick">>
                  THEN Append(@, [at |-> Len(c.hist) + 1, time |-> c.now,
                                  wrote |-> c.ticker.wrote])
                  ELSE @]

\* "For events that were created with targets, handle them now"
RECURSIVE PreTargets(_, _)
PreTargets(c, i) ==
    IF i > Len(c.ev.targets) THEN c
    ELSE PreTargets(TargetHandle(c, c.ev.targets[i]), i + 1)

\* base64 of AuthenticationIdentity, AuthorizationIdentity and Password joined
\* by NUL: one atom that no other line holds
PlainString == <<"base64(identity NUL identity NUL password)">>

\* case "packet.authenticate"
HandleAuthenticate(c) ==
    IF Arg(c.ev, 0) # <<"+">> THEN c
    ELSE IF c.values.usingMethod = <<"PLAIN">>
         THEN Send(c, <<"AUTHENTICATE ">> \o PlainString)
         ELSE c

\* case "packet.904": cancel the authentication
HandleAuthFailed(c) ==
    SetValue(Send(c, <<"AUTHENTICATE *">>), "usingMethod", <<>>)

\* case "packet.903", "packet.906"
HandleAuthEnded(c) ==
    IF c.nick = <<>> THEN Send(c, <<"NICK ">> \o config.Nick) ELSE c

\* The switch on event.name, but for "client.connect", which the dispatcher
\* steps through (HandleConnect* below)
Builtin(c) ==
    LET name == c.ev.name
    IN  CASE name = "hook.tick" -> HandleTick(c)
          [] name = "packet.ping" -> HandlePing(c)
          [] name = "packet.001" -> HandleWelcome(c)
          [] name \in {"packet.431", "packet.432", "packet.433", "packet.436"} ->
                HandleNickRejected(c)
          [] name = "packet.nick" -> HandleNick(c)
          [] name \in {"packet.privmsg", "ctcp.action"} -> HandlePrivmsg(c)
          [] name = "packet.005" -> HandleISupport(c)
          [] name = "packet.cap" -> HandleCap(c)
          [] name = "packet.352" -> HandleWhoReply(c)
          [] name = "packet.chghost" -> HandleChghost(c)
          [] name = "packet.join" -> HandleJoin(c)
          [] name = "packet.part" -> HandlePart(c)
          [] name = "packet.kick" -> HandleKick(c)
          [] name = "packet.quit" -> HandleQuit(c)
          [] name = "packet.353" -> HandleNames(c)
          [] name = "packet.366" -> HandleEndOfNames(c)
          [] name = "packet.mode" -> HandleMode(c)
          [] name = "packet.notice" -> HandleNotice(c)
          [] name \in {"packet.376", "packet.422"} -> HandleEndOfMotd(c)
          [] name = "packet.authenticate" -> HandleAuthenticate(c)
          [] name = "packet.904" -> HandleAuthFailed(c)
          [] name \in {"packet.903", "packet.906"} -> HandleAuthEnded(c)
          [] OTHER -> c

\* "if sentCapEnd": unlock nick changes and replay the primed one
AfterCapEnd(c) ==
    IF ~c.sentCapEnd THEN c
    ELSE LET c1 == SetValue(c, "lockNickChange", FALSE)
         IN  IF c1.values.primedNickChange # <<>>
             THEN Send(c1, <<"NICK ">> \o c1.values.primedNickChange)
             ELSE c1

\* "if len(event.targets) == 0": the status target takes the event
StatusFallback(c) ==
    IF Len(c.ev.targets) = 0 THEN handleInTarget(c, StatusPtr) ELSE c

\* One call handler(event, client).  A handler is known by the input verbs on
\* which it calls event.PreventDefault().
CallHandler(c, h) ==
    [c EXCEPT !.hlog = Append(@, <<Len(c.hist), h, c.ev.targets>>),
              !.ev.preventedDefault =
                  @ \/ (c.ev.kind = "input" /\ c.ev.verb \in c.handlers[h].prevents)]

\* A loop over the handlers that ends at the first call of PreventDefault
RECURSIVE RunHandlersStop(_, _)
RunHandlersStop(c, h) ==
    IF h > Len(c.handlers) \/ c.ev.preventedDefault THEN c
    ELSE RunHandlersStop(CallHandler(c, h), h + 1)

\* A loop over the handlers that leaves out the last one
RECURSIVE RunHandlersButLast(_, _)
RunHandlersButLast(c, h) ==
    IF h >= Len(c.handlers) THEN c
    ELSE RunHandlersButLast(CallHandler(c, h), h + 1)

\* "for _, handler := range clientHandlers"
RECURSIVE RunHandlers(_, _)
RunHandlers(c, h) ==
    IF h > Len(c.handlers) THEN c ELSE RunHandlers(CallHandler(c, h), h + 1)

\* handleEvent from the end of its switch on
FinishEvent(c) ==
    IF c.panicked # "" THEN c
    ELSE RunHandlers(StatusFallback(AfterCapEnd(c)), 1)

\* "Turn an unhandled input into a raw command"
InputFallback(c) ==
    IF c.ev.kind = "input" /\ ~c.ev.preventedDefault
    THEN SendQueued(c, ToUpper(c.ev.verb) \o <<" ">> \o c.ev.text)
    ELSE c

\* event.cancel()
CancelEvent(c) ==
    IF c.ev.id # 0 THEN [c EXCEPT !.done = @ \cup {c.ev.id}] ELSE c

\* The case "event, ok := <-client.events" of handleEventLoop once handleEvent
\* has got past its switch
LoopTail(c) ==
    LET c1 == FinishEvent(c)
    IN  IF c1.panicked # "" THEN c1 ELSE CancelEvent(InputFallback(c1))

\* handleEvent(event) followed by the rest of the loop body
HandleAndFinish(c) ==
    LET c1 == PreTargets(c, 1)
    IN  LoopTail(Builtin(c1))

Pop(c) == [c EXCEPT !.events = Tail(@)]

(***************************************************************************)
(* Construction                                                            *)
(***************************************************************************)
\* New(ctx, config): the status target is added (hook.add_target) and
\* client.create is emitted; both wait in the inbox.
InitClient(configs) ==
    /\ config \in {WithDefaults(c) : c \in configs}
    /\ conn = 0
    /\ open = {}
    /\ events = << [NewEvent("hook", <<"add_target">>, "hook.add_target") EXCEPT
                       !.args = << <<ToString(StatusPtr)>>, <<"status">>, <<"Status">> >>,
                       !.targets = <<StatusPtr>>],
                   NewEvent("client", <<"create">>, "client.create") >>
    /\ spill = <<>>
    /\ sends = <<>>
    /\ sendSpill = <<>>
    /\ done = {}
    /\ capEnabled = {}
    /\ capData = {}
    /\ capsRequested = <<>>
    /\ nick = <<>>
    /\ user = <<>>
    /\ host = <<>>
    /\ quit = FALSE
    /\ ready = FALSE
    /\ isupport = NoISupport
    /\ values = NoValues
    /\ targets = <<StatusTarget>>
    /\ handlers = <<>>
    /\ destroyed = FALSE
    /\ closed = FALSE
    /\ panicked = ""
    /\ nextId = StatusPtr + 1
    /\ cpc = "idle"
    /\ cnew = 0
    /\ rpc = <<>>
    /\ dpc = "idle"
    /\ dloc = [ev |-> NewEvent("", <<>>, ""), nick |-> <<>>]
    /\ spc = "idle"
    /\ sev = 0
    /\ sctx = "live"
    /\ sres = ""
    /\ rxCount = 0
    /\ emitCount = 0
    /\ hist = <<>>
    /\ hlog = <<>>
    /\ out = <<>>
    /\ queued = <<>>
    /\ api = <<>>
    /\ mutex = [readers |-> 0, pending |-> {}]
    /\ ein = [pc |-> "idle", target |-> StatusTarget, line |-> <<>>]
    /\ now = 0
    /\ sw = [pc |-> "recv", lastRefresh |-> ZeroTime, queue |-> config.SendRate,
             line |-> <<>>, wake |-> 0, written |-> <<>>]
    /\ ul = [list |-> NoUsers, op |-> "", nick |-> <<>>, arg |-> <<>>, ok |-> FALSE,
             prev |-> NoUsers]
    /\ lib = [op |-> "", text |-> <<>>, overhead |-> 0, result |-> <<>>]
    /\ ticker = [next |-> TickerPeriod, pending |-> FALSE, wrote |-> NeverWritten,
                 ticks |-> <<>>]
    /\ enb = [pc |-> "idle", id |-> 0]
    /\ sh = [list |-> NoUsers, prev |-> NoUsers, after |-> NoUsers, calls |-> 0,
             mpc |-> "idle", mop |-> "", mnick |-> <<>>, mmode |-> "", mhigh |-> "",
             rpc |-> "idle", rop |-> "", rlen |-> 0, ri |-> 0, snap |-> <<>>,
             seen |-> {}]

Alive == panicked = ""

CallerVars == <<cpc, cnew, rpc, spc, sev, sctx, sres, rxCount, emitCount>>

(***************************************************************************)
(* The dispatcher goroutine (Client.handleEventLoop)                       *)
(***************************************************************************)
\* The dispatcher gets the locks handleEvent takes for the event: read locks
\* for every event (Client.handlers is read under one), and the write lock
\* in cases of the switch on packet and client events
DispatcherLocks(e) ==
    /\ mutex.pending = {}
    /\ e.kind \in {"packet", "client"} => mutex.readers = 0

\* One turn of the loop for an event other than client.connect
Dispatch ==
    /\ Alive /\ dpc = "idle" /\ events # <<>>
    /\ Head(events).name # "client.connect"
    /\ DispatcherLocks(Head(events))
    /\ \E r \in RandomSuffixes :
          Commit(HandleAndFinish(Enter(Pop(Me), Head(events), r)))
    /\ UNCHANGED <<config, dpc, dloc, CallerVars>>

\* case "client.connect", up to Send("CAP LS 302")
HandleConnectCapLS ==
    /\ Alive /\ dpc = "idle" /\ events # <<>>
    /\ Head(events).name = "client.connect"
    /\ LET c == PreTargets(Enter(Pop(Me), Head(events), ""), 1)
       IN  /\ Commit(Send([c EXCEPT !.capEnabled = {}], <<"CAP LS 302">>))
           /\ dloc' = [ev |-> c.ev, nick |-> <<>>]
    /\ dpc' = "pass"
    /\ UNCHANGED <<config, CallerVars>>

\* case "client.connect": PASS, the choice of the nick, and the reset of the
\* data of the connection
HandleConnectPass ==
    /\ Alive /\ dpc = "pass"
    /\ LET c1 == IF config.Password # <<>>
                 THEN Send(Me, <<"PASS :">> \o config.Password)
                 ELSE Me
       IN  /\ dloc' = [dloc EXCEPT !.nick = IF c1.nick # <<>> THEN c1.nick ELSE config.Nick]
           /\ Commit([c1 EXCEPT !.nick = <<>>, !.user = <<>>, !.host = <<>>,
                                !.capsRequested = <<>>, !.capData = {},
                                !.capEnabled = {}])
    /\ dpc' = "nick"
    /\ UNCHANGED <<config, CallerVars>>

\* case "client.connect": Sendf("NICK %s", nick)
HandleConnectNick ==
    /\ Alive /\ dpc = "nick"
    /\ Commit(Send(Me, <<"NICK ">> \o dloc.nick))
    /\ dpc' = "user"
    /\ UNCHANGED <<config, dloc, CallerVars>>

\* case "client.connect": Sendf("USER ..."), then the rest of the loop body
HandleConnectUser ==
    /\ Alive /\ dpc = "user"
    /\ Commit(LoopTail(Send([Me EXCEPT !.ev = dloc.ev],
                <<"USER ">> \o config.User \o <<" 8 * :">> \o config.RealName)))
    /\ dpc' = "idle"
    /\ UNCHANGED <<config, dloc, CallerVars>>

\* case "client.connect" in one step of the dispatcher, for properties of the
\* state that only the dispatcher writes
HandleConnect ==
    /\ Alive /\ dpc = "idle" /\ events # <<>>
    /\ Head(events).name = "client.connect"
    /\ LET c0 == PreTargets(Enter(Pop(Me), Head(events), ""), 1)
           c1 == Send([c0 EXCEPT !.capEnabled = {}], <<"CAP LS 302">>)
           c2 == IF config.Password # <<>>
                 THEN Send(c1, <<"PASS :">> \o config.Password)
                 ELSE c1
           held == IF c2.nick # <<>> THEN c2.nick ELSE config.Nick
           c3 == [c2 EXCEPT !.nick = <<>>, !.user = <<>>, !.host = <<>>,
                            !.capsRequested = <<>>, !.capData = {},
                            !.capEnabled = {}]
           c4 == Send(c3, <<"NICK ">> \o held)
       IN  Commit(LoopTail(Send(c4,
                <<"USER ">> \o config.User \o <<" 8 * :">> \o config.RealName)))
    /\ UNCHANGED <<config, dpc, dloc, CallerVars>>

\* The goroutine EmitNonBlocking spawned completes "client.events <- &event"
SpillDeliver ==
    /\ Alive /\ Len(events) < ChanCap
    /\ \E i \in 1..Len(spill) :
          /\ events' = Append(events, spill[i])
          /\ spill' = SubSeq(spill, 1, i - 1) \o SubSeq(spill, i + 1, Len(spill))
    /\ UNCHANGED <<config, conn, open, sends, sendSpill, done, capEnabled, capData,
                   capsRequested, nick, user, host, quit, ready, isupport, values,
                   targets, handlers, destroyed, closed, panicked, nextId, dpc,
                   dloc, CallerVars, hist, hlog, out, queued, api, mutex, ein, now, sw, ul, lib, ticker, enb, sh>>

(***************************************************************************)
(* Client.Connect and the reader goroutine it starts                       *)
(***************************************************************************)
\* Connect up to the dial: Disconnect if connected, isupport.Reset, quit =
\* false, client.connecting
ConnectStart(maxConns) ==
    /\ Alive /\ cpc = "idle" /\ Len(rpc) < maxConns
    /\ Commit(EmitNonBlocking(
                [Disconnect(Me, FALSE) EXCEPT !.isupport = NoISupport, !.quit = FALSE],
                NewEvent("client", <<"connecting">>, "client.connecting")))
    /\ cpc' = "dial"
    /\ UNCHANGED <<config, cnew, rpc, dpc, dloc, spc, sev, sctx, sres, rxCount,
                   emitCount>>

\* The dial fails: error.connect, Connect returns the error (the attempt is
\* counted in rpc, where it has no reader)
ConnectFail ==
    /\ Alive /\ cpc = "dial"
    /\ Commit(EmitNonBlocking(Me, NewErrorEvent("connect")))
    /\ cpc' = "idle"
    /\ rpc' = Append(rpc, "failed")
    /\ UNCHANGED <<config, cnew, dpc, dloc, spc, sev, sctx, sres, rxCount,
                   emitCount>>

\* The dial succeeds: client.connect is emitted and the reader goroutine
\* started (ErrDestroyed and a closed connection on a destroyed client)
ConnectDial ==
    /\ Alive /\ cpc = "dial"
    /\ LET k == Len(rpc) + 1
       IN  IF destroyed
           THEN /\ rpc' = Append(rpc, "done")
                /\ cpc' = "idle"
                /\ UNCHANGED cnew
                /\ Commit(Me)
           ELSE /\ Commit(EmitNonBlocking([Me EXCEPT !.open = @ \cup {k}],
                            NewEvent("client", <<"connect">>, "client.connect")))
                /\ rpc' = Append(rpc, "read")
                /\ cnew' = k
                /\ cpc' = "set"
    /\ UNCHANGED <<config, dpc, dloc, spc, sev, sctx, sres, rxCount, emitCount>>

\* "client.conn = conn; return nil"
ConnectSetConn ==
    /\ Alive /\ cpc = "set"
    /\ conn' = cnew
    /\ cpc' = "idle"
    /\ UNCHANGED <<config, open, events, spill, sends, sendSpill, done, capEnabled,
                   capData, capsRequested, nick, user, host, quit, ready, isupport,
                   values, targets, handlers, destroyed, closed, panicked, nextId,
                   cnew, rpc, dpc, dloc, spc, sev, sctx, sres, rxCount, emitCount,
                   hist, hlog, out, queued, api, mutex, ein, now, sw, ul, lib, ticker, enb, sh>>

\* The reader of connection k reads a line that parses to one of `lines` and
\* emits it
ReadLine(lines, maxRx) ==
    /\ Alive /\ rxCount < maxRx
    /\ \E k \in 1..Len(rpc), i \in 1..Len(lines) :
          /\ rpc[k] = "read"
          /\ Commit(EmitNonBlocking(Me,
                [lines[i] EXCEPT !.rx = rxCount + 1, !.conn = k]))
    /\ rxCount' = rxCount + 1
    /\ UNCHANGED <<config, cpc, cnew, rpc, dpc, dloc, spc, sev, sctx, sres, emitCount>>

\* reader.ReadString fails (the connection was closed here or by the server):
\* error.read, and the loop is left
ReadFail ==
    /\ Alive
    /\ \E k \in 1..Len(rpc) :
          /\ rpc[k] = "read"
          /\ rpc' = [rpc EXCEPT ![k] = "close"]
    /\ Commit(EmitNonBlocking(Me, NewErrorEvent("read")))
    /\ UNCHANGED <<config, cpc, cnew, dpc, dloc, spc, sev, sctx, sres, rxCount,
                   emitCount>>

\* The end of the reader goroutine: client.conn.Close() (a nil dereference
\* without a connection), conn = nil, ready = false, client.disconnect
ReaderClose ==
    /\ Alive
    /\ \E k \in 1..Len(rpc) :
          /\ rpc[k] = "close"
          /\ rpc' = [rpc EXCEPT ![k] = "done"]
          /\ IF conn = 0
             THEN Commit([Me EXCEPT !.panicked = "reader"])
             ELSE Commit(EmitNonBlocking(
                      [Me EXCEPT !.open = @ \ {conn}, !.conn = 0, !.ready = FALSE],
                      [NewEvent("client", <<"disconnect">>, "client.disconnect")
                          EXCEPT !.conn = k]))
    /\ UNCHANGED <<config, cpc, cnew, dpc, dloc, spc, sev, sctx, sres, rxCount,
                   emitCount>>

(***************************************************************************)
(* Callers: AddHandler and EmitInput                                       *)
(***************************************************************************)
\* Client.AddHandler
AddHandler(kinds, maxHandlers) ==
    /\ Alive /\ Len(handlers) < maxHandlers
    /\ \E h \in kinds : Commit([Me EXCEPT !.handlers = Append(@, h)])
    /\ UNCHANGED <<config, dpc, dloc, CallerVars>>

\* The atoms of a verb as one string
RECURSIVE ConcatAtoms(_)
ConcatAtoms(s) == IF s = <<>> THEN "" ELSE Head(s) \o ConcatAtoms(Tail(s))

\* strings.ToLower
ToLower(s) == [i \in 1..Len(s) |-> LowerAtom(s[i])]

\* ParseInput(line)
ParseInput(line) ==
    LET split == SplitN2(Tail(line), " ")
        verb == IF line # <<>> /\ Head(line) = "/" THEN ToLower(split[1]) ELSE <<"text">>
        text == IF line # <<>> /\ Head(line) = "/"
                THEN IF Len(split) = 2 THEN split[2] ELSE <<>>
                ELSE line
    IN  [NewEvent("input", verb, "input." \o ConcatAtoms(verb)) EXCEPT !.text = text]

\* Client.Emit: nothing is sent on a destroyed client, and the caller waits
\* while the inbox is full
Emit(c, e) ==
    IF c.destroyed THEN c ELSE [c EXCEPT !.events = Append(@, e)]

\* Client.EmitInput(line, nil): the status target is the event's target
EmitInput(lines, maxInputs) ==
    /\ Alive /\ emitCount < maxInputs
    /\ destroyed \/ Len(events) < ChanCap
    /\ \E i \in 1..Len(lines) :
          Commit(Emit(Me, [ParseInput(lines[i]) EXCEPT !.targets = <<StatusPtr>>]))
    /\ emitCount' = emitCount + 1
    /\ UNCHANGED <<config, dpc, dloc, cpc, cnew, rpc, spc, sev, sctx, sres, rxCount>>

(***************************************************************************)
(* Callers that take Client.mutex.  A sync.RWMutex lets RLock wait while a *)
(* Lock is waiting, and lets Lock wait while read locks are held.  The     *)
(* locked sections that begin and end within one step leave no trace in    *)
(* mutex; it counts the read locks held across steps and names the callers *)
(* waiting in Lock.                                                        *)
(***************************************************************************)
\* The number of calls of a method in the log of calls
CallCount(op) == Len(SelectSeq(api, LAMBDA a : a.op = op))

\* A method that begins with client.mutex.Lock(): `after` if the lock is had
\* at once; otherwise the caller waits in Lock
WithLock(c, who, after) ==
    IF c.mutex.readers = 0 /\ c.mutex.pending = {} THEN after
    ELSE [c EXCEPT !.mutex.pending = @ \cup {who}]

\* A goroutine of the application calls AddTarget
AddTargetCall(pool, maxCalls) ==
    /\ Alive /\ "AddTarget" \notin mutex.pending
    /\ CallCount("AddTarget") < maxCalls
    /\ \E t \in pool :
          Commit(WithLock(Me, "AddTarget",
                 AddTarget([Me EXCEPT !.api = Append(@,
                              ApiCall("AddTarget", 0, t.ptr, AddTargetErr(Me, t)))], t)))
    /\ UNCHANGED <<config, dpc, dloc, CallerVars>>

\* A goroutine of the application calls RemoveTarget.  ErrTargetIsStatus is
\* returned before the lock is taken.
RemoveTargetCall(pool, maxCalls) ==
    /\ Alive /\ "RemoveTarget" \notin mutex.pending
    /\ CallCount("RemoveTarget") < maxCalls
    /\ \E t \in pool :
          LET after == RemoveTarget([Me EXCEPT !.api = Append(@,
                          ApiCall("RemoveTarget", 0, t.ptr, RemoveTargetErr(Me, t.ptr)))],
                          t.ptr)
          IN  Commit(IF t.ptr = StatusPtr THEN after
                     ELSE WithLock(Me, "RemoveTarget", after))
    /\ UNCHANGED <<config, dpc, dloc, CallerVars>>

\* A goroutine of the application calls SetValue
SetValueCall(maxCalls) ==
    /\ Alive /\ "SetValue" \notin mutex.pending
    /\ CallCount("SetValue") < maxCalls
    /\ Commit(WithLock(Me, "SetValue",
              SetValue([Me EXCEPT !.api = Append(@, ApiCall("SetValue", 0, 0, ""))],
                       "app", <<"value">>)))
    /\ UNCHANGED <<config, dpc, dloc, CallerVars>>

\* EmitInput(line, target) with a target, up to "client.mutex.RLock()"
EmitInputRLock(lines, pool, maxInputs) ==
    /\ Alive /\ ein.pc = "idle" /\ emitCount < maxInputs
    /\ mutex.pending = {}
    /\ \E i \in 1..Len(lines), t \in pool :
          Commit([Me EXCEPT !.mutex.readers = @ + 1,
                            !.ein = [pc |-> "lookup", target |-> t, line |-> lines[i]]])
    /\ emitCount' = emitCount + 1
    /\ UNCHANGED <<config, dpc, dloc, cpc, cnew, rpc, spc, sev, sctx, sres, rxCount>>

\* "client.TargetByID(target.ID()) == nil" under the caller's read lock:
\* TargetByID takes a read lock of its own, which waits while a Lock is
\* waiting.  Without the target, error.invalid_target is emitted and EmitInput
\* returns a cancelled context, the read lock still held; with it, RUnlock.
EmitInputLookup ==
    /\ Alive /\ ein.pc = "lookup"
    /\ mutex.pending = {}
    /\ IF TargetByID(Me, ein.target.id) = 0
       THEN Commit(EmitNonBlocking(
                [Me EXCEPT !.ein.pc = "idle",
                           !.api = Append(@, ApiCall("EmitInput", 0, ein.target.ptr,
                                                     "cancelled"))],
                NewErrorEvent("invalid_target")))
       ELSE Commit([Me EXCEPT !.mutex.readers = @ - 1, !.ein.pc = "emit"])
    /\ UNCHANGED <<config, dpc, dloc, CallerVars>>

\* "event.targets = append(event.targets, target)" under a read lock, and
\* "return client.Emit(event)"
EmitInputEmit ==
    /\ Alive /\ ein.pc = "emit"
    /\ mutex.pending = {}
    /\ destroyed \/ Len(events) < ChanCap
    /\ Commit(Emit([Me EXCEPT !.ein.pc = "idle",
                              !.api = Append(@, ApiCall("EmitInput", 0, ein.target.ptr,
                                                        "emitted"))],
                   [ParseInput(ein.line) EXCEPT !.targets = <<ein.target.ptr>>]))
    /\ UNCHANGED <<config, dpc, dloc, CallerVars>>

(***************************************************************************)
(* Callers: EmitSync and Destroy; the end of the dispatcher                *)
(***************************************************************************)
\* eventCtx.Done(): the dispatcher has cancelled the event, or the client's
\* context, its parent, is cancelled
EventDone == sev \in done \/ destroyed

\* What the log of calls keeps of a call of Emit, EmitNonBlocking or EmitSync
EmitCall(op, id) == ApiCall(op, id, 0, "")

\* EmitSync up to the send of Emit: the event's context is made and, on a
\* destroyed client, cancelled at once; the event is then not sent (sev = 0).
EmitSyncCall(maxSyncs) ==
    /\ Alive /\ spc = "idle" /\ emitCount < maxSyncs
    /\ sev' = IF destroyed THEN 0 ELSE emitCount + 1
    /\ spc' = IF destroyed THEN "wait" ELSE "send"
    /\ sctx' = "live"
    /\ sres' = ""
    /\ emitCount' = emitCount + 1
    /\ Commit([Me EXCEPT !.api = Append(@, EmitCall("EmitSync", emitCount + 1))])
    /\ UNCHANGED <<config, dpc, dloc, cpc, cnew, rpc, rxCount>>

\* "client.events <- &event" of Emit: the caller waits while the inbox is
\* full, and a send on the channel Destroy has closed panics
EmitSyncSend ==
    /\ Alive /\ spc = "send"
    /\ closed \/ Len(events) < ChanCap
    /\ IF closed
       THEN /\ Commit([Me EXCEPT !.panicked = "emit"])
            /\ UNCHANGED spc
       ELSE /\ Commit([Me EXCEPT !.events = Append(@,
                        [NewEvent("test", <<"sync">>, "test.sync") EXCEPT !.id = sev])])
            /\ spc' = "wait"
    /\ UNCHANGED <<config, dpc, dloc, cpc, cnew, rpc, sev, sctx, sres, rxCount, emitCount>>

\* A call of EmitNonBlocking by a goroutine of the application
EmitNonBlockingCall(maxEmits) ==
    /\ Alive /\ emitCount < maxEmits
    /\ Commit(EmitNonBlocking(
            [Me EXCEPT !.api = Append(@, EmitCall("EmitNonBlocking", emitCount + 1))],
            [NewEvent("test", <<"async">>, "test.async") EXCEPT !.id = emitCount + 1]))
    /\ emitCount' = emitCount + 1
    /\ UNCHANGED <<config, dpc, dloc, cpc, cnew, rpc, spc, sev, sctx, sres, rxCount>>

\* The caller's ctx is done while EmitSync waits; "first" if the event's
\* context is not done yet
CancelSyncCtx ==
    /\ Alive /\ spc = "wait" /\ sctx = "live"
    /\ sctx' = IF EventDone THEN "late" ELSE "first"
    /\ Commit(Me)
    /\ UNCHANGED <<config, dpc, dloc, cpc, cnew, rpc, spc, sev, sres, rxCount, emitCount>>

\* The select of EmitSync: nil when eventCtx is done (its error is
\* context.Canceled), ctx.Err() when ctx is done, either when both are
EmitSyncReturn ==
    /\ Alive /\ spc = "wait"
    /\ \/ EventDone /\ sres' = "nil"
       \/ sctx # "live" /\ sres' = "ctx"
    /\ spc' = "idle"
    /\ Commit(Me)
    /\ UNCHANGED <<config, dpc, dloc, cpc, cnew, rpc, sev, sctx, rxCount, emitCount>>

\* Client.Destroy: Disconnect, cancel, close(sends); the Emit of
\* client.destroy finds the client destroyed and sends nothing; close(events)
Destroy ==
    /\ Alive /\ ~closed
    /\ Commit([Disconnect(Me, FALSE) EXCEPT !.destroyed = TRUE, !.closed = TRUE])
    /\ UNCHANGED <<config, dpc, dloc, CallerVars>>

\* The context given to New, the parent of Client.ctx, is cancelled
CancelParent ==
    /\ Alive /\ ~destroyed
    /\ Commit([Me EXCEPT !.destroyed = TRUE])
    /\ UNCHANGED <<config, dpc, dloc, CallerVars>>

\* handleEventLoop leaves its loop: client.ctx is done, or the closed inbox is
\* empty; Disconnect(false)
DispatcherEnd ==
    /\ Alive /\ dpc = "idle" /\ destroyed
    /\ dpc' = "ended"
    /\ Commit(Disconnect(Me, FALSE))
    /\ UNCHANGED <<config, dloc, CallerVars>>

(***************************************************************************)
(* Server lines                                                            *)
(***************************************************************************)
Server == <<"irc.example">>

\* ":irc.example 002 Test :Your host", a numeric without built-in handling
OrderLines == << Packet("002", Server, << <<"Test">> >>, <<"Your host">>) >>

(***************************************************************************)
(* SpecOrder: one connection whose reader outruns the dispatcher           *)
(***************************************************************************)
MaxOrderRx == 62

InitOrder == InitClient({TestConfig})

NextOrder ==
    \/ ConnectStart(1)
    \/ ConnectDial
    \/ ConnectSetConn
    \/ HandleConnectCapLS
    \/ HandleConnectPass
    \/ HandleConnectNick
    \/ HandleConnectUser
    \/ Dispatch
    \/ ReadLine(OrderLines, MaxOrderRx)
    \/ SpillDeliver

SpecOrder == InitOrder /\ [][NextOrder]_vars

\* C1: events parsed from lines of one connection are handled in the order
\* the lines were read, whatever the number of events pending in the inbox.
C1_ReceptionOrder ==
    \A i, j \in 1..Len(hist) :
        (i < j /\ hist[i].rx > 0 /\ hist[j].rx > 0 /\ hist[i].conn = hist[j].conn)
            => hist[i].rx < hist[j].rx

(***************************************************************************)
(* SpecCrash: a server that sends known verbs and numerics with too few    *)
(* arguments, and 005 tokens with a malformed PREFIX                       *)
(***************************************************************************)
CrashLines ==
    << Packet("001", Server, << <<"Test">> >>, <<"Welcome">>),
       Packet("001", Server, <<>>, <<"Welcome">>),
       Packet("352", Server, << <<"Test">>, <<"*">> >>, <<>>),
       Packet("431", Server, << <<"*">> >>, <<"No nickname given">>),
       Packet("433", Server, << <<"*">>, <<"Test">> >>, <<"Nick in use">>),
       Packet("CAP", Server, << <<"*">> >>, <<>>),
       Packet("CAP", Server, << <<"*">>, <<"LS">> >>, <<"multi-prefix">>),
       Packet("CHGHOST", <<>>, <<>>, <<>>),
       Packet("MODE", Server, <<>>, <<>>),
       Packet("MODE", Server, << <<"Test">> >>, <<"+", "i">>),
       Packet("NOTICE", Server, <<>>, <<>>),
       Packet("NOTICE", Server, << <<"*">> >>, <<"Checking your bits">>),
       Packet("005", Server, <<>>, <<>>),
       Packet("005", Server,
              << <<"Test">>, <<"PREFIX", "=", "(", "o", "v", ")", "@", "+">>,
                 <<"CHANTYPES", "=", "#">> >>, <<"are supported">>),
       Packet("005", Server, << <<"Test">>, <<"PREFIX", "=">> >>, <<"are supported">>),
       Packet("005", Server, << <<"Test">>, <<"PREFIX", "=", "(", "o", "v">> >>,
              <<"are supported">>),
       Packet("005", Server, << <<"Test">>, <<"PREFIX", "=", "(", "o", "v", ")", "@">> >>,
              <<"are supported">>) >>

MaxCrashRx == 2

InitCrash == InitClient({TestConfig})

NextCrash ==
    \/ ConnectStart(1)
    \/ ConnectDial
    \/ ConnectSetConn
    \/ HandleConnectCapLS
    \/ HandleConnectPass
    \/ HandleConnectNick
    \/ HandleConnectUser
    \/ Dispatch
    \/ ReadLine(CrashLines, MaxCrashRx)

SpecCrash == InitCrash /\ [][NextCrash]_vars

\* C2: no server line crashes the dispatcher: whatever packets are handled,
\* handleEvent does not panic, so the event loop goes on to the next event.
C2_DispatcherSurvives == panicked # "handleEvent"

(***************************************************************************)
(* SpecConnect: the caller of Connect, the dispatcher and the readers      *)
(***************************************************************************)
ConnectLines ==
    << Packet("001", Server, << <<"Test">> >>, <<"Welcome">>),
       Packet("PING", <<>>, <<>>, <<"irc.example">>) >>

MaxConnects == 1
MaxConnectRx == 2

InitConnect == InitClient({TestConfig, PasswordConfig})

NextConnect ==
    \/ ConnectStart(MaxConnects)
    \/ ConnectFail
    \/ ConnectDial
    \/ ConnectSetConn
    \/ HandleConnectCapLS
    \/ HandleConnectPass
    \/ HandleConnectNick
    \/ HandleConnectUser
    \/ Dispatch
    \/ ReadLine(ConnectLines, MaxConnectRx)
    \/ ReadFail
    \/ ReaderClose

SpecConnect == InitConnect /\ [][NextConnect]_vars

\* The calls of Send made while the h-th handled event was handled
SentAt(h) == SelectSeq(out, LAMBDA o : o.at = h)

\* The registration lines of the configuration, the nick left open
IsRegistration(reg) ==
    LET n == Len(reg)
    IN  /\ n = IF config.Password # <<>> THEN 4 ELSE 3
        /\ \A i \in 1..n : reg[i].res = "ok" /\ reg[i].conn = reg[1].conn
        /\ reg[1].line = <<"CAP LS 302">>
        /\ config.Password # <<>> => reg[2].line = <<"PASS :">> \o config.Password
        /\ reg[n - 1].line[1] = "NICK "
        /\ reg[n].line = <<"USER ">> \o config.User \o <<" 8 * :">> \o config.RealName

\* C3: whenever client.connect has been handled, CAP LS 302, PASS (with a
\* password), NICK and USER were written in this order to a connection, for
\* every interleaving of Connect with the dispatcher.
C3_RegistrationWritten ==
    \A h \in 1..Len(hist) :
        (hist[h].name = "client.connect" /\ (h < Len(hist) \/ dpc = "idle"))
            => IsRegistration(SentAt(h))

(***************************************************************************)
(* SpecNick: a server that rejects nicks, before and after CAP negotiation *)
(***************************************************************************)
NickLines ==
    << Packet("433", Server, << <<"*">>, <<"Test">> >>, <<"Nickname is already in use">>),
       Packet("436", Server, << <<"*">>, <<"Test", "2">> >>, <<"Nickname collision">>),
       Packet("432", Server, << <<"*">>, <<"Test", "3">> >>, <<"Erroneous nickname">>),
       Packet("001", Server, << <<"Test", "2">> >>, <<"Welcome">>),
       Packet("CAP", Server, << <<"*">>, <<"LS">> >>, <<"multi-prefix">>),
       Packet("CAP", Server, << <<"*">>, <<"ACK">> >>, <<"multi-prefix">>) >>

MaxNickRx == 3

InitNick == InitClient({TestConfig})

NextNick ==
    \/ ConnectStart(1)
    \/ ConnectDial
    \/ ConnectSetConn
    \/ HandleConnectCapLS
    \/ HandleConnectPass
    \/ HandleConnectNick
    \/ HandleConnectUser
    \/ Dispatch
    \/ ReadLine(NickLines, MaxNickRx)

SpecNick == InitNick /\ [][NextNick]_vars

\* The lines handed to Send while the h-th handled event was handled
LinesAt(h) == [i \in 1..Len(SentAt(h)) |-> SentAt(h)[i].line]

NickRejected == {"packet.431", "packet.432", "packet.433", "packet.436"}

\* The h-th handled event is a nick rejection that names a nick
IsRejection(h) == hist[h].name \in NickRejected /\ Len(hist[h].args) >= 2

FallbackNicks == {config.Nick \o <<r>> : r \in RandomSuffixes}

\* The nicks the rotation may answer a rejection of `rejected` with, for the
\* configured Nick and its Alternatives (empty for any other nick)
NickAfter(rejected) ==
    LET alts == config.Alternatives
        n == Len(alts)
    IN  IF rejected = config.Nick
        THEN IF n > 0 THEN {alts[1]} ELSE FallbackNicks
        ELSE {alts[i + 1] : i \in {i \in 1..(n - 1) : alts[i] = rejected}}
             \cup (IF n > 0 /\ alts[n] = rejected THEN FallbackNicks ELSE {})

NickLinesAfter(rejected) == {<<"NICK ">> \o n : n \in NickAfter(rejected)}

\* The rejections handled before h without a nick while nick changes were locked
PrimedBefore(h) ==
    {k \in 1..(h - 1) : IsRejection(k) /\ hist[k].pre.nick = <<>> /\ hist[k].pre.locked}

LastPrimed(h) == CHOOSE k \in PrimedBefore(h) : \A j \in PrimedBefore(h) : j <= k

\* C4: a rejection of Nick or Alternatives[i] handled without an accepted
\* nick and with nick changes unlocked makes the client send one NICK, for
\* the next alternative (the suffixed Nick after the last); with an accepted
\* nick, or while a CAP LS holds nick changes locked, the rejection sends
\* nothing, and the NICK of the last locked rejection follows CAP END.
C4_NickRotation ==
    /\ \A h \in 1..Len(hist) :
          IsRejection(h) =>
             IF hist[h].pre.nick # <<>> \/ hist[h].pre.locked
             THEN LinesAt(h) = <<>>
             ELSE NickAfter(hist[h].args[2]) # {} =>
                     /\ Len(LinesAt(h)) = 1
                     /\ LinesAt(h)[1] \in NickLinesAfter(hist[h].args[2])
    /\ \A h \in 1..Len(hist) :
          LET lines == LinesAt(h)
          IN  (\E i \in 1..Len(lines) : lines[i] = <<"CAP END">>) /\ PrimedBefore(h) # {}
                 /\ NickAfter(hist[LastPrimed(h)].args[2]) # {}
              => lines[Len(lines)] \in NickLinesAfter(hist[LastPrimed(h)].args[2])

\* C4 as stated: every rejection of Nick or Alternatives[i] handled without an
\* accepted nick sends the NICK of the next alternative
C4_AsStated ==
    \A h \in 1..Len(hist) :
        (IsRejection(h) /\ hist[h].pre.nick = <<>> /\ NickAfter(hist[h].args[2]) # {})
            => /\ Len(LinesAt(h)) = 1
               /\ LinesAt(h)[1] \in NickLinesAfter(hist[h].args[2])

\* Nick, Alternatives[1] and the last alternative were rejected in turn without
\* a lock, and answered with NICK Test2, NICK Test3 and the suffixed Nick
C4_Witness ==
    \E h \in 3..Len(hist) :
        /\ \A k \in (h - 2)..h :
              IsRejection(k) /\ hist[k].pre.nick = <<>> /\ ~hist[k].pre.locked
        /\ hist[h - 2].args[2] = config.Nick
        /\ LinesAt(h - 2) = << <<"NICK ">> \o config.Alternatives[1] >>
        /\ LinesAt(h - 1) = << <<"NICK ">> \o config.Alternatives[2] >>
        /\ hist[h].args[2] = config.Alternatives[Len(config.Alternatives)]
        /\ LinesAt(h)[1] \in {<<"NICK ">> \o n : n \in FallbackNicks}

(***************************************************************************)
(* SpecCap: capability negotiation on one connection                       *)
(***************************************************************************)
CapPacket(args, text) == Packet("CAP", Server, args, text)

CapLines ==
    << CapPacket(<< <<"*">>, <<"LS">>, <<"*">> >>,
                 <<"multi-prefix", " ", "sasl", "=", "PLAIN">>),
       CapPacket(<< <<"*">>, <<"LS">> >>, <<"chghost", " ", "twitch.tv/tags">>),
       CapPacket(<< <<"*">>, <<"LS">> >>, <<"twitch.tv/tags">>),
       CapPacket(<< <<"*">>, <<"LS">> >>, <<>>),
       CapPacket(<< <<"*">>, <<"ACK">> >>, <<"multi-prefix", " ", "chghost">>),
       CapPacket(<< <<"*">>, <<"ACK">> >>, <<"multi-prefix", " ">>),
       CapPacket(<< <<"*">>, <<"NAK">> >>, <<"chghost">>),
       CapPacket(<< <<"*">>, <<"NEW">> >>, <<"chghost", " ", " ", "away-notify">>),
       CapPacket(<< <<"*">>, <<"DEL">> >>, <<" ", "chghost">>) >>

MaxCapRx == 3

InitCap == InitClient({TestConfig})

NextCap ==
    \/ ConnectStart(1)
    \/ ConnectDial
    \/ ConnectSetConn
    \/ HandleConnectCapLS
    \/ HandleConnectPass
    \/ HandleConnectNick
    \/ HandleConnectUser
    \/ Dispatch
    \/ ReadLine(CapLines, MaxCapRx)

SpecCap == InitCap /\ [][NextCap]_vars

\* The h-th handled event is a CAP line with the given subcommand
IsCap(h, sub) ==
    hist[h].name = "packet.cap" /\ Len(hist[h].args) >= 2 /\ hist[h].args[2] = <<sub>>

\* The names listed in the text of a CAP line: the space-separated tokens,
\* each cut at its first "="
RECURSIVE KeysOf(_)
KeysOf(tokens) ==
    IF tokens = <<>> THEN <<>>
    ELSE <<SplitN2(Head(tokens), "=")[1]>> \o KeysOf(Tail(tokens))

SupportedIn(text) ==
    SelectSeq(KeysOf(SplitStr(text, " ")), LAMBDA k : k \in SeqToSet(supportedCaps))

\* The supported names the LS lines handled up to h advertised since the last
\* client.connect, in order; with naks, without the names a NAK took back
RECURSIVE AdvertisedUpTo(_, _)
AdvertisedUpTo(h, naks) ==
    IF h = 0 \/ hist[h].name = "client.connect" THEN <<>>
    ELSE LET before == AdvertisedUpTo(h - 1, naks)
         IN  IF IsCap(h, "LS") THEN before \o SupportedIn(hist[h].text)
             ELSE IF naks /\ IsCap(h, "NAK")
                  THEN RemoveAll(before, SplitStr(hist[h].text, " "))
                  ELSE before

\* What handling the LS line h sends when `names` are the names to request
AnswersLS(h, names) ==
    IF Len(hist[h].args) >= 3 /\ hist[h].args[3] = <<"*">>
    THEN LinesAt(h) = <<>>
    ELSE IF names # <<>>
         THEN LinesAt(h) = << <<"CAP REQ :">> \o JoinStr(names, <<" ">>) >>
         ELSE LinesAt(h) = << <<"CAP END">> >>

\* C5: the last LS line is answered with one CAP REQ of the supported names
\* advertised on this connection, in the order advertised and without the
\* names a CAP NAK has taken back since, or with CAP END if none is left; an
\* LS line with `*` is answered with nothing.
C5_CapRequest ==
    \A h \in 1..Len(hist) : IsCap(h, "LS") => AnswersLS(h, AdvertisedUpTo(h, TRUE))

\* C5 as stated: the CAP REQ lists exactly the supported names advertised
C5_AsStated ==
    \A h \in 1..Len(hist) : IsCap(h, "LS") => AnswersLS(h, AdvertisedUpTo(h, FALSE))

\* Two LS lines, the first with `*` and a key=data token, answered with one
\* CAP REQ of the three supported names
C5_Witness ==
    \E h \in 2..Len(hist) :
        /\ IsCap(h - 1, "LS") /\ IsCap(h, "LS")
        /\ LinesAt(h - 1) = <<>>
        /\ LinesAt(h) = << <<"CAP REQ :", "multi-prefix", " ", "sasl", " ", "chghost">> >>

\* C7: the empty capability is never enabled, whatever CAP lines are handled.
C7_EmptyCapDisabled == ~CapEnabled(<<>>)

(***************************************************************************)
(* SpecReconnect: capability negotiation over two connections              *)
(***************************************************************************)
ReconnectLines ==
    << CapPacket(<< <<"*">>, <<"LS">> >>, <<"multi-prefix", " ", "echo-message">>),
       CapPacket(<< <<"*">>, <<"ACK">> >>, <<"multi-prefix">>),
       CapPacket(<< <<"*">>, <<"DEL">> >>, <<"multi-prefix">>) >>

MaxReconnects == 2
MaxReconnectRx == 2

InitReconnect == InitClient({TestConfig})

NextReconnect ==
    \/ ConnectStart(MaxReconnects)
    \/ ConnectDial
    \/ ConnectSetConn
    \/ HandleConnect
    \/ Dispatch
    \/ ReadLine(ReconnectLines, MaxReconnectRx)

SpecReconnect == InitReconnect /\ [][NextReconnect]_vars

\* The capabilities listed in a CAP ACK among the first h handled events,
\* after the last client.connect among them, and in no CAP DEL after that ACK
RECURSIVE AckedUpTo(_)
AckedUpTo(h) ==
    IF h = 0 \/ hist[h].name = "client.connect" THEN {}
    ELSE IF IsCap(h, "ACK")
         THEN AckedUpTo(h - 1) \cup SeqToSet(SplitStr(hist[h].text, " "))
         ELSE IF IsCap(h, "DEL")
              THEN AckedUpTo(h - 1) \ SeqToSet(SplitStr(hist[h].text, " "))
              ELSE AckedUpTo(h - 1)

\* C6: a capability is enabled only if a CAP ACK handled since the last
\* client.connect listed it and no CAP DEL handled after that ACK did.
C6_EnabledOnlyIfAcked ==
    \A cap \in SeqToSet(supportedCaps) \cup capEnabled :
        CapEnabled(cap) => cap \in AckedUpTo(Len(hist))

\* multi-prefix was acknowledged on the first connection; the client.connect
\* of the second has been handled since, and multi-prefix is not enabled
C6_Witness ==
    /\ dpc = "idle"
    /\ \E h \in 1..Len(hist) : IsCap(h, "ACK") /\ hist[h].text = <<"multi-prefix">>
    /\ hist[Len(hist)].name = "client.connect"
    /\ ~CapEnabled(<<"multi-prefix">>)

(***************************************************************************)
(* SpecRejoin: channels joined and left, and the end of the MOTD           *)
(***************************************************************************)
Self == <<"Test">>

RejoinLines ==
    << Packet("001", Server, << Self >>, <<"Welcome">>),
       Packet("JOIN", Self, << <<"#a">> >>, <<>>),
       Packet("JOIN", Self, << <<"#b">> >>, <<>>),
       Packet("PART", Self, << <<"#a">> >>, <<>>),
       Packet("376", Server, << Self >>, <<"End of /MOTD command.">>),
       Packet("422", Server, << Self >>, <<"MOTD File is missing">>) >>

MaxRejoinRx == 4

InitRejoin == InitClient({TestConfig})

NextRejoin ==
    \/ ConnectStart(1)
    \/ ConnectDial
    \/ ConnectSetConn
    \/ HandleConnect
    \/ Dispatch
    \/ ReadLine(RejoinLines, MaxRejoinRx)

SpecRejoin == InitRejoin /\ [][NextRejoin]_vars

EndOfMotd == {"packet.376", "packet.422"}

\* The names of the Channel targets the client held when the h-th event was
\* handled, in the order of the target list
ChannelsAt(h) ==
    LET chans == SelectSeq(hist[h].pre.targets, LAMBDA t : t.kind = "channel")
    IN  [i \in 1..Len(chans) |-> chans[i].name]

\* C8: handling 376 or 422 sends one JOIN that names every Channel target
\* of the client, or nothing without a Channel target, and leaves the client
\* ready.
C8_RejoinOnEndOfMotd ==
    /\ \A h \in 1..Len(hist) :
          hist[h].name \in EndOfMotd =>
             IF ChannelsAt(h) # <<>>
             THEN LinesAt(h) = << <<"JOIN ">> \o JoinStr(ChannelsAt(h), <<",">>) >>
             ELSE LinesAt(h) = <<>>
    /\ (hist # <<>> /\ hist[Len(hist)].name \in EndOfMotd) => ready

\* The end of the MOTD was handled with two channels and answered with one
\* JOIN naming both
C8_Witness ==
    /\ hist # <<>>
    /\ hist[Len(hist)].name \in EndOfMotd
    /\ Len(ChannelsAt(Len(hist))) = 2
    /\ LinesAt(Len(hist)) = << <<"JOIN ", "#a", ",", "#b">> >>
    /\ ready

(***************************************************************************)
(* SpecInput: handlers that call PreventDefault, and input events          *)
(***************************************************************************)
InputLines ==
    << <<"/", "invalidcommand", " ", "stuff and things">>,
       <<"/", "ME", " ", "waves">>,
       <<"/", "quit">>,
       <<"hello">> >>

InputHandlers ==
    { [prevents |-> {}],
      [prevents |-> {<<"me">>}],
      [prevents |-> {<<"me">>, <<"text">>, <<"quit">>}] }

MaxHandlers == 2
MaxInputs == 2

InitInput == InitClient({TestConfig})

NextInput ==
    \/ AddHandler(InputHandlers, MaxHandlers)
    \/ EmitInput(InputLines, MaxInputs)
    \/ Dispatch

SpecInput == InitInput /\ [][NextInput]_vars

\* The handlers called for the h-th handled event, in the order of the calls
CalledAt(h) ==
    LET calls == SelectSeq(hlog, LAMBDA x : x[1] = h)
    IN  [i \in 1..Len(calls) |-> calls[i][2]]

\* The lines SendQueued was called with while the h-th event was handled
QueuedAt(h) == SelectSeq(queued, LAMBDA q : q.at = h)

\* The number of handler calls made for the first h handled events
CallsUpTo(h) == Len(SelectSeq(hlog, LAMBDA x : x[1] <= h))

\* The h-th handled event is an input on which a handler calls PreventDefault
Prevented(h) ==
    \E i \in 1..Len(hist[h].pre.handlers) : hist[h].verb \in hist[h].pre.handlers[i].prevents

SyncHandlers == {[prevents |-> {}]}

MaxSyncHandlers == 2
MaxSyncs == 2

InitSync == InitClient({TestConfig})

NextSync ==
    \/ AddHandler(SyncHandlers, MaxSyncHandlers)
    \/ EmitSyncCall(MaxSyncs)
    \/ EmitSyncSend
    \/ CancelSyncCtx
    \/ EmitSyncReturn
    \/ Destroy
    \/ Dispatch
    \/ DispatcherEnd

SpecSync == InitSync /\ [][NextSync]_vars

\* The dispatcher has called every handler registered at that moment on the
\* event of the given id
InvokedAll(id) ==
    \E h \in 1..Len(hist) :
        /\ hist[h].id = id
        /\ CalledAt(h) = [i \in 1..Len(hist[h].pre.handlers) |-> i]

Returned(res) == spc = "idle" /\ sres = res

\* C10: when EmitSync has returned nil and the client is not destroyed, the
\* dispatcher has invoked every registered handler on the event; when it has
\* returned ctx's error, ctx is done.  (With both contexts done either result
\* is possible, and on a client destroyed in the meantime nil is returned
\* without the handlers.)
C10_EmitSync ==
    /\ (Returned("nil") /\ ~destroyed) => InvokedAll(sev)
    /\ Returned("ctx") => sctx # "live"

\* C10 as stated: on a client that was not destroyed when EmitSync was called
\* (the event was sent), nil is returned only after the handlers were invoked,
\* and not when ctx was done first
C10_AsStated ==
    (Returned("nil") /\ sev # 0) => (InvokedAll(sev) /\ sctx # "first")

\* EmitSync has returned nil on a live client with two handlers, both invoked
\* on the event
C10_Witness ==
    /\ Returned("nil") /\ ~destroyed /\ sev # 0
    /\ \E h \in 1..Len(hist) : hist[h].id = sev /\ CalledAt(h) = <<1, 2>>

(***************************************************************************)
(* SpecDestroy: Destroy and the cancellation of the parent context beside  *)
(* callers of EmitSync and EmitNonBlocking.  A goroutine that can run is   *)
(* scheduled, and a select takes a case that stays ready sooner or later:  *)
(* the caller of EmitSync and the end of the dispatcher loop are fair.     *)
(***************************************************************************)
MaxDestroyEmits == 2

InitDestroy == InitClient({TestConfig})

NextDestroy ==
    \/ AddHandler(SyncHandlers, 1)
    \/ EmitSyncCall(MaxDestroyEmits)
    \/ EmitSyncSend
    \/ CancelSyncCtx
    \/ EmitSyncReturn
    \/ EmitNonBlockingCall(MaxDestroyEmits)
    \/ CancelParent
    \/ Destroy
    \/ Dispatch
    \/ DispatcherEnd

SpecDestroy ==
    /\ InitDestroy /\ [][NextDestroy]_vars
    /\ WF_vars(EmitSyncSend) /\ WF_vars(EmitSyncReturn) /\ WF_vars(DispatcherEnd)

\* The events of the calls that found the client destroyed
EmittedLate == {api[i].id : i \in {j \in 1..Len(api) : api[j].destroyed}}

\* C11: once the client is destroyed it stays destroyed, every call of
\* EmitSync in progress returns and the dispatcher loop ends, and no event of
\* a call made on the destroyed client is handled.
C11_DestroyIsFinal ==
    /\ [][destroyed => destroyed']_vars
    /\ [](\A h \in 1..Len(hist) : hist[h].id \notin EmittedLate)
    /\ destroyed ~> (dpc = "ended" /\ spc = "idle")

(***************************************************************************)
(* SpecLock: EmitInput with a target beside callers of AddTarget,          *)
(* RemoveTarget and SetValue, and the dispatcher                           *)
(***************************************************************************)
\* The target of the application: a channel
LockTargets == { NewTarget(11, 11, "channel", <<"#a">>) }

LockLines == << <<"/", "me", " ", "waves">> >>

MaxLockInputs == 2
MaxLockCalls == 1

InitLock == InitClient({TestConfig})

NextLock ==
    \/ AddTargetCall(LockTargets, MaxLockCalls)
    \/ RemoveTargetCall(LockTargets, MaxLockCalls)
    \/ SetValueCall(MaxLockCalls)
    \/ EmitInputRLock(LockLines, LockTargets, MaxLockInputs)
    \/ EmitInputLookup
    \/ EmitInputEmit
    \/ Dispatch

SpecLock == InitLock /\ [][NextLock]_vars

\* The events of a name that were emitted: handled, in the inbox or on their way
EmittedCount(name) ==
    Len(SelectSeq(hist \o events \o spill, LAMBDA e : e.name = name))

\* The calls of EmitInput that have returned with the given result
InputCalls(res) == Len(SelectSeq(api, LAMBDA a : a.op = "EmitInput" /\ a.res = res))

\* EmitInput has returned and left a read lock held: no Lock succeeds any more
LockLeaked == ein.pc = "idle" /\ mutex.readers > 0

\* EmitInput holds its read lock and a Lock is waiting: the read lock of
\* TargetByID waits for the Lock, which waits for EmitInput
LockDeadlocked == ein.pc = "lookup" /\ mutex.pending # {}

\* C12: each EmitInput with a target outside the target set emits one
\* error.invalid_target and no input event, and the mutex stays usable:
\* EmitInput returns with no read lock held and is never stuck behind a
\* waiting Lock, so every later Lock succeeds.
C12_InvalidTargetHarmless ==
    /\ EmittedCount("error.invalid_target") = InputCalls("cancelled")
    /\ EmittedCount("input.me") = InputCalls("emitted")
    /\ ~LockLeaked
    /\ ~LockDeadlocked

(***************************************************************************)
(* SpecReady: connections that are lost, and the end of the MOTD           *)
(***************************************************************************)
ReadyLines ==
    << Packet("376", Server, << Self >>, <<"End of /MOTD command.">>),
       Packet("422", Server, << Self >>, <<"MOTD File is missing">>) >>

MaxReadyConns == 2
MaxReadyRx == 2

InitReady == InitClient({TestConfig})

\* The caller connects, and connects again once the connection is lost
Reconnect ==
    /\ \A k \in 1..Len(rpc) : rpc[k] = "done"
    /\ ConnectStart(MaxReadyConns)

NextReady ==
    \/ Reconnect
    \/ ConnectDial
    \/ ConnectSetConn
    \/ HandleConnect
    \/ Dispatch
    \/ ReadLine(ReadyLines, MaxReadyRx)
    \/ ReadFail
    \/ ReaderClose

SpecReady == InitReady /\ [][NextReady]_vars

\* The h-th handled event is the client.disconnect of a connection, and no
\* 376 or 422 read from a later connection was handled after it
DisconnectedSince(h) ==
    /\ hist[h].name = "client.disconnect"
    /\ \A j \in (h + 1)..Len(hist) :
          ~(hist[j].name \in EndOfMotd /\ hist[j].conn > hist[h].conn)

\* Ready() holds while the client has no connection
ReadyWithoutConn == ready /\ conn = 0

\* C13: once client.disconnect has been handled, Ready() is false until 376
\* or 422 of a later connection is handled, and Ready() never holds while
\* the client has no connection.
C13_ReadyNeedsConnection ==
    /\ \A h \in 1..Len(hist) : DisconnectedSince(h) => ~ready
    /\ ~ReadyWithoutConn

(***************************************************************************)
(* The send worker (Client.handleSendLoop) and the callers of SendQueued   *)
(***************************************************************************)
\* The n-th line a caller queues
QueuedLine(n) == <<"PRIVMSG #a :", ToString(n)>>

\* A caller's Client.SendQueued(line); the call is logged with the number of
\* connections dialled so far
SendQueuedCall(maxLines) ==
    /\ Alive /\ ~closed /\ CallCount("SendQueued") < maxLines
    /\ LET n == CallCount("SendQueued") + 1
       IN  Commit(SendQueued([Me EXCEPT !.api = Append(@,
                     ApiCall("SendQueued", n, Len(rpc), ""))], QueuedLine(n)))
    /\ UNCHANGED <<config, dpc, dloc, CallerVars>>

\* time.Now() moves on
Tick(maxTime) ==
    /\ Alive /\ now < maxTime
    /\ Commit([Me EXCEPT !.now = @ + 1])
    /\ UNCHANGED <<config, dpc, dloc, CallerVars>>

\* "for line := range client.sends" up to the call of time.Sleep or, without
\* one, of client.Send
SendLoopReceive ==
    /\ Alive /\ sw.pc = "recv" /\ sends # <<>>
    /\ LET deltaTime == now - sw.lastRefresh
           inSecond == deltaTime < TicksPerSecond
           queue == IF inSecond THEN sw.queue - 1 ELSE config.SendRate - 1
           sleeps == inSecond /\ queue <= 0
       IN  Commit([Me EXCEPT
              !.sends = Tail(@),
              !.sw = [@ EXCEPT
                 !.line = Head(sends),
                 !.lastRefresh = IF inSecond /\ ~sleeps THEN @ ELSE now,
                 !.queue = IF sleeps THEN config.SendRate - 1 ELSE queue,
                 !.wake = IF sleeps THEN now + (TicksPerSecond - deltaTime) ELSE now,
                 !.pc = "send"]])
    /\ UNCHANGED <<config, dpc, dloc, CallerVars>>

\* "_ = client.Send(line)", once time.Sleep has returned; a line that was
\* written is logged with the time and the connection
SendLoopSend ==
    /\ Alive /\ sw.pc = "send" /\ now >= sw.wake
    /\ LET c == Send(Me, sw.line)
           wrote == conn # 0 /\ conn \in open
       IN  Commit([c EXCEPT
              !.sw = [@ EXCEPT
                 !.pc = "recv",
                 !.written = IF wrote
                             THEN Append(@, [line |-> sw.line, time |-> now,
                                             conn |-> conn])
                             ELSE @]])
    /\ UNCHANGED <<config, dpc, dloc, CallerVars>>

(***************************************************************************)
(* SpecRate: lines queued at any time, under three send rates              *)
(***************************************************************************)
RateConfigs == { [TestConfig EXCEPT !.SendRate = r] : r \in {0, 1, 3} }

MaxRateLines == 6
MaxRateTime == 4

InitRate == InitClient(RateConfigs)

NextRate ==
    \/ ConnectStart(1)
    \/ ConnectDial
    \/ ConnectSetConn
    \/ SendQueuedCall(MaxRateLines)
    \/ Tick(MaxRateTime)
    \/ SendLoopReceive
    \/ SendLoopSend

SpecRate == InitRate /\ [][NextRate]_vars

\* The lines the send worker wrote in the second that starts at time t
WrittenInSecond(t) ==
    { i \in 1..Len(sw.written) :
         sw.written[i].time >= t /\ sw.written[i].time < t + TicksPerSecond }

\* C14: the send worker writes at most SendRate lines in any second.
C14_SendRate ==
    \A t \in 0..now : Cardinality(WrittenInSecond(t)) <= config.SendRate

(***************************************************************************)
(* SpecStale: lines queued around the loss of a connection                 *)
(***************************************************************************)
MaxStaleConns == 2
MaxStaleLines == 2
MaxStaleTime == 2

InitStale == InitClient({TestConfig})

NextStale ==
    \/ ConnectStart(MaxStaleConns)
    \/ ConnectDial
    \/ ConnectSetConn
    \/ ReadFail
    \/ ReaderClose
    \/ SendQueuedCall(MaxStaleLines)
    \/ Tick(MaxStaleTime)
    \/ SendLoopReceive
    \/ SendLoopSend

SpecStale == InitStale /\ [][NextStale]_vars

\* The number of connections that had been dialled when `line` was queued
DialledWhenQueued(line) ==
    LET a == CHOOSE a \in SeqToSet(api) :
                 a.op = "SendQueued" /\ QueuedLine(a.id) = line
    IN  a.ptr

\* C15: the send worker writes a line only to a connection that had been
\* dialled when the line was queued, never to one established later.
C15_NoStaleLines ==
    \A i \in 1..Len(sw.written) :
        sw.written[i].conn <= DialledWhenQueued(sw.written[i].line)

(***************************************************************************)
(* SpecPart: channels left by PART, by KICK and by RemoveTarget            *)
(***************************************************************************)
Other == <<"Other">>

PartLines ==
    << Packet("001", Server, << Self >>, <<"Welcome">>),
       Packet("JOIN", Self, << <<"#a">> >>, <<>>),
       Packet("PART", Self, << <<"#a">> >>, <<>>),
       Packet("PART", Other, << <<"#a">> >>, <<>>),
       Packet("KICK", Other, << <<"#a">>, Self >>, <<"bye">>) >>

MaxPartRx == 5
MaxPartCalls == 1

InitPart == InitClient({TestConfig})

NextPart ==
    \/ ConnectStart(1)
    \/ ConnectDial
    \/ ConnectSetConn
    \/ HandleConnect
    \/ Dispatch
    \/ ReadLine(PartLines, MaxPartRx)
    \/ RemoveTargetCall(SeqToSet(targets), MaxPartCalls)

SpecPart == InitPart /\ [][NextPart]_vars

\* The event e, about to be handled, is a PART of ours or a KICK that names us
LeavesUs(e) ==
    \/ e.name = "packet.part" /\ e.nick = nick
    \/ e.name = "packet.kick" /\ Arg(e, 1) = nick

TargetPtrs(ts) == { ts[i].ptr : i \in 1..Len(ts) }

\* The dispatcher handles a PART or KICK that has us leave: the channel it
\* names is no target afterwards and no line is written or queued
PartHandled ==
    (Len(hist') = Len(hist) + 1 /\ LeavesUs(hist'[Len(hist')])) =>
        /\ ChannelPtr(Me, Arg(hist'[Len(hist')], 0)) \notin TargetPtrs(targets')
        /\ out' = out
        /\ queued' = queued

\* A call of RemoveTarget succeeds on a channel: the channel is no target
\* afterwards, and PART <name> is queued once
ChannelRemoved ==
    (Len(api') = Len(api) + 1 /\ api'[Len(api')].op = "RemoveTarget"
                              /\ api'[Len(api')].res = "") =>
        \E i \in 1..Len(targets) :
            /\ targets[i].ptr = api'[Len(api')].ptr
            /\ targets[i].ptr \notin TargetPtrs(targets')
            /\ out' = out
            /\ Len(queued') = Len(queued) + 1
            /\ queued'[Len(queued')].line =
                  IF targets[i].kind = "channel" /\ ~targets[i].parted
                  THEN <<"PART ">> \o targets[i].name
                  ELSE <<>>

\* C16: handling our own PART, or a KICK that names us, removes the channel
\* from the targets and sends no line, also when the channel is gone
\* already; RemoveTarget on a channel removes it and queues one PART <name>.
C16_LeavingChannels == [][PartHandled /\ ChannelRemoved]_vars

\* RemoveTarget has removed #a and queued its PART; the server's PART for us
\* was handled after that with no further line; before, a KICK that named
\* us had removed the channel with no line at all
C16_Witness ==
    /\ \E a \in SeqToSet(api) : a.op = "RemoveTarget" /\ a.res = ""
    /\ Len(queued) = 1 /\ queued[1].line = <<"PART ", "#a">>
    /\ hist[Len(hist)].name = "packet.part" /\ hist[Len(hist)].nick = Self
    /\ TargetPtrs(hist[Len(hist)].pre.targets) = {StatusPtr}
    /\ \E h \in 1..Len(hist) :
          /\ hist[h].name = "packet.kick" /\ Arg(hist[h], 1) = hist[h].pre.nick
          /\ TargetPtrs(hist[h].pre.targets) # {StatusPtr}
    /\ TargetPtrs(targets) = {StatusPtr}

(***************************************************************************)
(* SpecTargets: AddTarget and RemoveTarget called by the application       *)
(***************************************************************************)
\* The client's status target, a second Status and two Channel objects of
\* one name
TargetPool ==
    { StatusTarget,
      NewTarget(12, 12, "status", <<"Status">>),
      NewTarget(11, 11, "channel", <<"#a">>),
      NewTarget(13, 13, "channel", <<"#a">>) }

MaxAddCalls == 3
MaxRemoveCalls == 2

InitTargets == InitClient({TestConfig})

NextTargets ==
    \/ AddTargetCall(TargetPool, MaxAddCalls)
    \/ RemoveTargetCall(TargetPool, MaxRemoveCalls)
    \/ Dispatch

SpecTargets == InitTargets /\ [][NextTargets]_vars

PoolTarget(ptr) == CHOOSE t \in TargetPool : t.ptr = ptr

\* The error the call `a` must return for the target set `ts`, "" for none
ExpectedErr(a, ts) ==
    LET t == PoolTarget(a.ptr)
        member == a.ptr \in TargetPtrs(ts)
        twin == \E i \in 1..Len(ts) : ts[i].kind = t.kind /\ ts[i].name = t.name
    IN  IF a.op = "AddTarget"
        THEN IF member THEN "ErrTargetAlreadyAdded"
             ELSE IF twin THEN "ErrTargetConflict" ELSE ""
        ELSE IF a.ptr = StatusPtr THEN "ErrTargetIsStatus"
             ELSE IF ~member THEN "ErrTargetNotFound" ELSE ""

\* A call of AddTarget or RemoveTarget returns the error its case has, and a
\* call that fails changes no target and emits and queues nothing
TargetCallChecked ==
    Len(api') = Len(api) + 1 =>
        LET a == api'[Len(api')]
        IN  /\ a.res = ExpectedErr(a, targets)
            /\ a.res # "" =>
                  /\ targets' = targets
                  /\ events' = events /\ spill' = spill
                  /\ queued' = queued
            /\ a.res = "" =>
                  /\ Len(events') = Len(events) + 1
                  /\ events'[Len(events')].name =
                        IF a.op = "AddTarget" THEN "hook.add_target"
                        ELSE "hook.remove_target"

OneStatus ==
    { i \in 1..Len(targets) : targets[i].kind = "status" } = {1}

\* C17: AddTarget and RemoveTarget fail with the error of their case, a
\* failed call leaves the targets alone and emits no hook event, and the
\* targets always hold exactly one Status, the client's own.
C17_TargetErrors ==
    /\ [][TargetCallChecked]_vars
    /\ [](OneStatus /\ targets[1] = StatusTarget)

\* Each of the four errors has been returned, and a call has succeeded
C17_Witness ==
    /\ \A err \in {"ErrTargetAlreadyAdded", "ErrTargetConflict",
                   "ErrTargetIsStatus", "ErrTargetNotFound", ""} :
          \E a \in SeqToSet(api) : a.res = err
    /\ \E a \in SeqToSet(api) :
          a.ptr = 12 /\ a.op = "AddTarget" /\ a.res = "ErrTargetConflict"

(***************************************************************************)
(* SpecOwnNick: the server changes our nick                                *)
(***************************************************************************)
Renamed == <<"Renamed">>

OwnNickLines ==
    << Packet("001", Server, << Self >>, <<"Welcome">>),
       PacketFrom("JOIN", Self, <<"~test">>, <<"127.0.0.1">>, <<>>, << <<"#a">> >>, <<>>),
       PacketFrom("NICK", Self, <<"~test">>, <<"127.0.0.1">>, <<>>, << Renamed >>, <<>>),
       PacketFrom("NICK", Other, <<"~other">>, <<"127.0.0.2">>, <<>>, << Self >>, <<>>),
       PacketFrom("PART", Renamed, <<"~test">>, <<"127.0.0.1">>, <<>>, << <<"#a">> >>, <<>>) >>

MaxOwnNickRx == 4

InitOwnNick == InitClient({TestConfig})

NextOwnNick ==
    \/ ConnectStart(1)
    \/ ConnectDial
    \/ ConnectSetConn
    \/ HandleConnect
    \/ Dispatch
    \/ ReadLine(OwnNickLines, MaxOwnNickRx)

SpecOwnNick == InitOwnNick /\ [][NextOwnNick]_vars

\* The last event handled is a NICK whose source was our nick
OwnNickHandled ==
    /\ hist # <<>>
    /\ hist[Len(hist)].name = "packet.nick"
    /\ hist[Len(hist)].nick = hist[Len(hist)].pre.nick

\* C18: once a NICK whose source is our nick is handled, Nick() returns the
\* new nick.
C18_OwnNick ==
    OwnNickHandled => nick = Arg(hist[Len(hist)], 0)

(***************************************************************************)
(* SpecChghost: CHGHOST for a user of a channel and for ourselves          *)
(***************************************************************************)
ChghostLines ==
    << Packet("001", Server, << Self >>, <<"Welcome">>),
       PacketFrom("JOIN", Self, <<"~test">>, <<"127.0.0.1">>, <<>>, << <<"#a">> >>, <<>>),
       PacketFrom("JOIN", Other, <<"~other">>, <<"127.0.0.2">>, <<>>, << <<"#a">> >>, <<>>),
       PacketFrom("CHGHOST", Other, <<"~other">>, <<"127.0.0.2">>, <<>>,
                  << <<"newuser">>, <<"new.host">> >>, <<>>),
       PacketFrom("CHGHOST", Self, <<"~test">>, <<"127.0.0.1">>, <<>>,
                  << <<"newuser">>, <<"new.host">> >>, <<>>) >>

MaxChghostRx == 4

InitChghost == InitClient({TestConfig})

NextChghost ==
    \/ ConnectStart(1)
    \/ ConnectDial
    \/ ConnectSetConn
    \/ HandleConnect
    \/ Dispatch
    \/ ReadLine(ChghostLines, MaxChghostRx)

SpecChghost == InitChghost /\ [][NextChghost]_vars

\* The channels that had the nick n on their userlist when the h-th event
\* was handled
ChannelsWith(h, n) ==
    { t.ptr : t \in { u \in SeqToSet(hist[h].pre.targets) :
                         u.kind = "channel" /\ HasUser(u.userlist, n) } }

\* The user of nick n on every channel of ptrs has the user and host given
PatchedIn(ptrs, n, newUser, newHost) ==
    \A i \in 1..Len(targets) :
        targets[i].ptr \in ptrs =>
            \E u \in SeqToSet(targets[i].userlist.users) :
                u.nick = n /\ u.user = newUser /\ u.host = newHost

\* C19: once CHGHOST newuser newhost is handled, the subject has that user
\* and host on every channel userlist it is on, and if the subject is our
\* nick User() and Host() return them.
C19_Chghost ==
    (hist # <<>> /\ hist[Len(hist)].name = "packet.chghost") =>
        LET e == hist[Len(hist)]
        IN  /\ PatchedIn(ChannelsWith(Len(hist), e.nick), e.nick, Arg(e, 0), Arg(e, 1))
            /\ e.nick = e.pre.nick => (user = Arg(e, 0) /\ host = Arg(e, 1))

(***************************************************************************)
(* SpecQuery: private messages, and senders that change their nick         *)
(***************************************************************************)
Third == <<"Third">>

\* ParsePacket on a PRIVMSG whose text is a CTCP ACTION
Action(e) == [e EXCEPT !.kind = "ctcp", !.verb = <<"ACTION">>, !.name = "ctcp.action"]

QueryLines ==
    << Packet("001", Server, << Self >>, <<"Welcome">>),
       PacketFrom("PRIVMSG", Other, <<"~other">>, <<"127.0.0.2">>, <<"acc">>,
                  << Self >>, <<"Hello">>),
       Action(PacketFrom("PRIVMSG", Third, <<"~third">>, <<"127.0.0.3">>, <<>>,
                         << Self >>, <<"waves">>)),
       PacketFrom("NICK", Third, <<"~third">>, <<"127.0.0.3">>, <<>>, << Renamed >>, <<>>),
       PacketFrom("NICK", Other, <<"~other">>, <<"127.0.0.2">>, <<>>, << Third >>, <<>>) >>

MaxQueryRx == 4

InitQuery == InitClient({TestConfig})

NextQuery ==
    \/ ConnectStart(1)
    \/ ConnectDial
    \/ ConnectSetConn
    \/ HandleConnect
    \/ Dispatch
    \/ ReadLine(QueryLines, MaxQueryRx)

SpecQuery == InitQuery /\ [][NextQuery]_vars

\* The Query targets of ts that Client.Query(n) can match
QueriesNamed(ts, n) ==
    { t \in SeqToSet(ts) : t.kind = "query" /\ EqualFold(n, t.name) }

\* Client.Query(n), as the set of the target found
QueryFound(n) ==
    IF TargetIndex(Me, "query", n) = 0 THEN {}
    ELSE { targets[TargetIndex(Me, "query", n)] }

\* The last event handled is a message to our nick: its sender has one query,
\* the one it had before or else a new one with the sender's data
MessageRouted ==
    LET e == hist[Len(hist)]
        before == QueriesNamed(e.pre.targets, e.nick)
    IN  (e.name \in {"packet.privmsg", "ctcp.action"} /\ Arg(e, 0) = e.pre.nick) =>
           /\ Cardinality(QueriesNamed(targets, e.nick)) = 1
           /\ before # {} => QueriesNamed(targets, e.nick) = before
           /\ before = {} =>
                 \E t \in QueriesNamed(targets, e.nick) :
                     t.userlist.users = <<NewUser(e.nick, e.user, e.host, e.account)>>

\* The last event handled is the NICK of a sender that had a query: the query
\* is found under the new nick and none under the old one
QueryRenamed ==
    LET e == hist[Len(hist)]
        before == QueriesNamed(e.pre.targets, e.nick)
    IN  (e.name = "packet.nick" /\ before # {}) =>
           /\ { t.ptr : t \in QueryFound(Arg(e, 0)) } = { t.ptr : t \in before }
           /\ QueryFound(e.nick) = {}

\* No two queries for one nick
OneQueryPerNick ==
    \A i, j \in 1..Len(targets) :
        (targets[i].kind = "query" /\ targets[j].kind = "query"
            /\ EqualFold(targets[i].name, targets[j].name)) => i = j

\* C20: a message to our nick is routed to the one query of its sender,
\* made if absent and reused if present; no nick has two queries; after the
\* sender's NICK the query is found under the new nick and not the old.
C20_Queries ==
    /\ OneQueryPerNick
    /\ hist # <<>> => (MessageRouted /\ QueryRenamed)

(***************************************************************************)
(* SpecEcho: the server echoes a message we sent to a nick                 *)
(***************************************************************************)
EchoLines ==
    << Packet("001", Server, << Self >>, <<"Welcome">>),
       PacketFrom("PRIVMSG", Other, <<"~other">>, <<"127.0.0.2">>, <<>>,
                  << Self >>, <<"Hello">>),
       PacketFrom("PRIVMSG", Self, <<"~test">>, <<"127.0.0.1">>, <<>>,
                  << Other >>, <<"hi!">>) >>

EchoHandlers == { [prevents |-> {}] }

MaxEchoRx == 3

InitEcho == InitClient({TestConfig})

NextEcho ==
    \/ AddHandler(EchoHandlers, 1)
    \/ ConnectStart(1)
    \/ ConnectDial
    \/ ConnectSetConn
    \/ HandleConnect
    \/ Dispatch
    \/ ReadLine(EchoLines, MaxEchoRx)

SpecEcho == InitEcho /\ [][NextEcho]_vars

\* Event.QueryTarget() for the targets ptrs of an event: the pointers of the
\* first Query among them, none for nil
QueryTarget(ptrs) ==
    LET queries == SelectSeq(ptrs, LAMBDA p :
                       \E i \in 1..Len(targets) :
                           targets[i].ptr = p /\ targets[i].kind = "query")
    IN  IF queries = <<>> THEN {} ELSE {queries[1]}

\* The last event handled is a PRIVMSG of ours to a nick that has a query, and
\* a handler was called for it
EchoHandled ==
    /\ hist # <<>>
    /\ hist[Len(hist)].name = "packet.privmsg"
    /\ hist[Len(hist)].nick = hist[Len(hist)].pre.nick
    /\ QueriesNamed(hist[Len(hist)].pre.targets, Arg(hist[Len(hist)], 0)) # {}
    /\ \E i \in 1..Len(hlog) : hlog[i][1] = Len(hist)

\* C21: the echo of a message we sent to a nick that has a query reaches the
\* handlers with that query as the event's query target.
C21_EchoInQuery ==
    EchoHandled =>
        \A i \in 1..Len(hlog) :
            hlog[i][1] = Len(hist) =>
                QueryTarget(hlog[i][3]) =
                    { t.ptr : t \in QueriesNamed(targets, Arg(hist[Len(hist)], 0)) }

(***************************************************************************)
(* A userlist of its own, called as list_test.go calls it                  *)
(***************************************************************************)
\* testISupport of list_test.go, for the keys the list reads
TestISupport ==
    ISupportSet(
        ISupportSet([isupport |-> NoISupport, panicked |-> ""], <<"PREFIX">>,
                    <<"(", "o", "v", ")", "@", "+">>),
        <<"CHANMODES">>, <<"b", ",", "k", ",", "l", ",", "m">>).isupport

\* One call on the list: its name and arguments, what it returned, the list
\* it left
ListCall(op, n, arg, ok, l) ==
    /\ Alive
    /\ Commit([Me EXCEPT !.ul = [list |-> l, op |-> op, nick |-> n, arg |-> arg,
                                 ok |-> ok, prev |-> ul.list]])
    /\ UNCHANGED <<config, cpc, cnew, rpc, dpc, dloc, spc, sev, sctx, sres, rxCount,
                   emitCount>>

InsertCall(users) ==
    \E u \in users :
        ListCall("Insert", u.nick, u.modes, ~HasUser(ul.list, u.nick),
                 ListInsert(TestISupport, ul.list, u))

InsertFromNamesTokenCall(tokens) ==
    \E token \in tokens :
        ListCall("InsertFromNamesToken", NamesTokenUser(TestISupport, token).nick, token,
                 ~HasUser(ul.list, NamesTokenUser(TestISupport, token).nick),
                 InsertFromNamesToken(TestISupport, ul.list, token))

AddModeCall(nicks, modes) ==
    \E n \in nicks, mode \in modes :
        ListCall("AddMode", n, <<mode>>, ModeOk(TestISupport, ul.list, n, mode),
                 ListAddMode(TestISupport, ul.list, n, mode))

RemoveModeCall(nicks, modes) ==
    \E n \in nicks, mode \in modes :
        ListCall("RemoveMode", n, <<mode>>, ModeOk(TestISupport, ul.list, n, mode),
                 ListRemoveMode(TestISupport, ul.list, n, mode))

RenameCall(nicks) ==
    \E from \in nicks, newNick \in nicks :
        ListCall("Rename", from, newNick, RenameOk(ul.list, from, newNick),
                 ListRename(TestISupport, ul.list, from, newNick))

RemoveCall(nicks) ==
    \E n \in nicks :
        ListCall("Remove", n, <<>>, HasUser(ul.list, n), ListRemove(ul.list, n))

PatchCall(nicks, newUser, newHost) ==
    \E n \in nicks :
        ListCall("Patch", n, newUser \o <<"@">> \o newHost, PatchIndex(ul.list, n) # 0,
                 ListPatch(ul.list, n, newUser, newHost, <<>>))

SetAutoSortCall ==
    \E autosort \in BOOLEAN :
        ListCall("SetAutoSort", <<>>, <<ToString(autosort)>>, TRUE,
                 SetAutoSort(TestISupport, ul.list, autosort))


ListUsers ==
    { NewUser(<<"A">>, <<>>, <<>>, <<>>),
      [NewUser(<<"b">>, <<>>, <<>>, <<>>) EXCEPT !.modes = <<"v", "o">>] }

ListTokens == { <<"@", "+", "A">>, <<"C", "!", "u", "@", "h">>, <<"a">> }

ListModes == { "o", "v", "m" }

InitList == InitClient({TestConfig})

NextList ==
    \/ InsertCall(ListUsers)
    \/ InsertFromNamesTokenCall(ListTokens)
    \/ AddModeCall({<<"A">>, <<"b">>}, ListModes)
    \/ RemoveModeCall({<<"A">>, <<"b">>}, ListModes)
    \/ RenameCall({<<"A">>, <<"a">>, <<"b">>})
    \/ RemoveCall({<<"a">>, <<"C">>, <<"Test">>})
    \/ PatchCall({<<"b">>}, <<"u2">>, <<"h2">>)
    \/ SetAutoSortCall

SpecList == InitList /\ [][NextList]_vars

\* The place of a user's highest mode in modeOrder, one past its end for a
\* user without a mode
ModeRank(is, u) ==
    IF u.modes = <<>> THEN Len(is.modeOrder) + 1
    ELSE IndexOfAtom(is.modeOrder, u.modes[1])

\* The users are in the order of (highest mode, case-folded nick)
Sorted(is, users) ==
    \A i \in 1..Len(users), j \in 1..Len(users) :
        i < j =>
            \/ ModeRank(is, users[i]) < ModeRank(is, users[j])
            \/ /\ ModeRank(is, users[i]) = ModeRank(is, users[j])
               /\ LessStr(LowerNick(users[i].nick), LowerNick(users[j].nick))

\* C22: whatever calls were made on a userlist, while autosort is on its
\* users are in the order of the place of their highest mode in modeOrder,
\* the users without a mode last, and of their case-folded nicks among the
\* users of one highest mode.
C22_SortedWhenAutoSort ==
    ul.list.autosort => Sorted(TestISupport, ul.list.users)

\* Autosort was off, users came in out of order, and turning it on sorted
\* three users of which two have a mode
C22_Witness ==
    /\ ul.op = "SetAutoSort" /\ ul.list.autosort
    /\ ~ul.prev.autosort
    /\ ~Sorted(TestISupport, ul.prev.users)
    /\ Len(ul.list.users) = 3
    /\ \E i, j \in 1..3 : ul.list.users[i].modes = <<>> /\ ul.list.users[j].modes # <<>>

\* The user the list has for the nick
UserOf(l, n) == l.users[UserIndex(l, n)]

\* The modes are permission modes in the order of modeOrder, the prefixes
\* are theirs one by one, and prefixedNick starts with the highest
ModesConsistent(is, u) ==
    /\ \A i \in 1..Len(u.modes) : IndexOfAtom(is.modeOrder, u.modes[i]) # 0
    /\ \A i, j \in 1..Len(u.modes) :
          i < j => IndexOfAtom(is.modeOrder, u.modes[i]) < IndexOfAtom(is.modeOrder, u.modes[j])
    /\ Len(u.prefixes) = Len(u.modes)
    /\ \A i \in 1..Len(u.modes) : <<u.prefixes[i], u.modes[i]>> \in is.prefixes
    /\ u.prefixedNick = IF u.modes = <<>> THEN u.nick ELSE <<u.prefixes[1]>> \o u.nick

Gisle == <<"Gisle">>

\* A 353 for #a with the given entries
Names(text) == Packet("353", Server, << Self, <<"=">>, <<"#a">> >>, text)

\* What the server sends first: the welcome, its PREFIX, and our JOIN of #a
JoinedLines ==
    << Packet("001", Server, << Self >>, <<"Welcome">>),
       Packet("005", Server, << Self, <<"PREFIX", "=", "(", "o", "v", ")", "@", "+">> >>,
              <<"are supported">>),
       PacketFrom("JOIN", Self, <<"~test">>, <<"127.0.0.1">>, <<>>, << <<"#a">> >>, <<>>) >>

\* "Test!~test@127.0.0.1 @+Gisle!gisle@gisle.me", "+Other @Test" (we are an
\* op of the channel) and "Third " (the list ends with a space)
NamesLines ==
    << Names(Self \o <<"!", "~test", "@", "127.0.0.1", " ", "@", "+">> \o Gisle \o
             <<"!", "gisle", "@", "gisle.me">>),
       Names(<<"+">> \o Other \o <<" ", "@">> \o Self),
       Names(Third \o <<" ">>),
       Packet("366", Server, << Self, <<"#a">> >>, <<"End of /NAMES list.">>) >>

MaxNamesRx == 7

InitNames == InitClient({TestConfig})

\* The reader reads the lines of JoinedLines in their order
ReadJoined ==
    /\ rxCount < Len(JoinedLines)
    /\ ReadLine(<<JoinedLines[rxCount + 1]>>, Len(JoinedLines))

NextNames ==
    \/ ConnectStart(1)
    \/ ConnectDial
    \/ ConnectSetConn
    \/ HandleConnect
    \/ Dispatch
    \/ ReadJoined
    \/ rxCount >= Len(JoinedLines) /\ ReadLine(NamesLines, MaxNamesRx)

SpecNames == InitNames /\ [][NextNames]_vars

\* The packets handled so far
PacketsHandled == SelectSeq(hist, LAMBDA e : e.kind = "packet")

\* The packets handled are the 001, the 005, our JOIN, one 353 or more and
\* the 366, which was handled last of all events
NamesRun ==
    LET p == PacketsHandled
    IN  /\ Len(p) >= 5
        /\ p[1].name = "packet.001" /\ p[2].name = "packet.005"
        /\ p[3].name = "packet.join"
        /\ \A i \in 4..(Len(p) - 1) : p[i].name = "packet.353"
        /\ p[Len(p)].name = "packet.366"
        /\ hist[Len(hist)].name = "packet.366"

\* The entries of the 353s among the packets from the i-th on, in their order
RECURSIVE NamesTokens(_, _)
NamesTokens(p, i) ==
    IF i > Len(p) THEN <<>>
    ELSE (IF p[i].name = "packet.353"
          THEN SelectSeq(SplitStr(p[i].text, " "), LAMBDA t : t # <<>>) ELSE <<>>)
         \o NamesTokens(p, i + 1)

\* What a NAMES entry says: the prefixes before the nick, the nick, and the
\* user and host if it has them
NamesEntry(token) ==
    LET isPrefix(x) == \E q \in isupport.prefixes : q[1] = x
        k == CHOOSE n \in 0..Len(token) :
                /\ \A i \in 1..n : isPrefix(token[i])
                /\ n < Len(token) => ~isPrefix(token[n + 1])
        rest == SubSeq(token, k + 1, Len(token))
        bang == IndexOfAtom(rest, "!")
        userhost == IF bang = 0 THEN <<>> ELSE SubSeq(rest, bang + 1, Len(rest))
        at == IndexOfAtom(userhost, "@")
    IN  [nick |-> IF bang = 0 THEN rest ELSE SubSeq(rest, 1, bang - 1),
         modes |-> { (CHOOSE q \in isupport.prefixes : q[1] = token[i])[2] : i \in 1..k },
         user |-> IF at = 0 THEN <<>> ELSE SubSeq(userhost, 1, at - 1),
         host |-> IF at = 0 THEN <<>> ELSE SubSeq(userhost, at + 1, Len(userhost))]

\* The userlist of #a
NamesList == targets[TargetIndex(Me, "channel", <<"#a">>)].userlist

\* Every entry has its user: with the modes of the entry's prefixes and its
\* user and host, if no earlier entry names the nick
EntriesListed(toks) ==
    \A i \in 1..Len(toks) :
        LET e == NamesEntry(toks[i])
        IN  /\ HasUser(NamesList, e.nick)
            /\ (\A j \in 1..(i - 1) : NamesEntry(toks[j]).nick # e.nick) =>
                  /\ SeqToSet(UserOf(NamesList, e.nick).modes) = e.modes
                  /\ e.host # <<>> =>
                        /\ UserOf(NamesList, e.nick).user = e.user
                        /\ UserOf(NamesList, e.nick).host = e.host

\* Every user is the user of an entry, or ourselves, who joined
OnlyEntriesListed(toks) ==
    \A i \in 1..Len(NamesList.users) :
        \/ NamesList.users[i].nick = Self
        \/ \E j \in 1..Len(toks) : NamesEntry(toks[j]).nick = NamesList.users[i].nick

\* C25: after the 353s and the 366 of a channel we are on, its userlist has
\* one user for each entry of the 353s, with the modes of all the prefixes of
\* the entry and with its user and host, and no other user; it is sorted.
C25_Names ==
    NamesRun =>
        /\ TargetIndex(Me, "channel", <<"#a">>) # 0
        /\ NamesList.autosort
        /\ Sorted(isupport, NamesList.users)
        /\ EntriesListed(NamesTokens(PacketsHandled, 1))
        /\ OnlyEntriesListed(NamesTokens(PacketsHandled, 1))

(***************************************************************************)
(* SpecMode: MODE for a channel we are on                                  *)
(***************************************************************************)
ModeChannel == <<"#", "a">>

\* A MODE for the channel from Other
Mode(modes, args) ==
    PacketFrom("MODE", Other, <<"~other">>, <<"127.0.0.2">>, <<>>,
               <<ModeChannel, modes>> \o args, <<>>)

\* What the server sends first: the welcome, PREFIX=(ov)@+ CHANTYPES=#
\* CHANMODES=b,k,l,s, our JOIN and the NAMES "Test Other"
ModeJoinedLines ==
    << Packet("001", Server, << Self >>, <<"Welcome">>),
       Packet("005", Server,
              << Self, <<"PREFIX", "=", "(", "o", "v", ")", "@", "+">>,
                 <<"CHANTYPES", "=", "#">>,
                 <<"CHANMODES", "=", "b", ",", "k", ",", "l", ",", "s">> >>,
              <<"are supported">>),
       PacketFrom("JOIN", Self, <<"~test">>, <<"127.0.0.1">>, <<>>, <<ModeChannel>>, <<>>),
       Packet("353", Server, << Self, <<"=">>, ModeChannel >>, Self \o <<" ">> \o Other) >>

\* "+osv Test Test", "+lo 10 Other", "-l+v Other", "+k-ov key Test Other"
ModeLines ==
    << Mode(<<"+", "o", "s", "v">>, <<Self, Self>>),
       Mode(<<"+", "l", "o">>, << <<"10">>, Other >>),
       Mode(<<"-", "l", "+", "v">>, <<Other>>),
       Mode(<<"+", "k", "-", "o", "v">>, << <<"key">>, Self, Other >>) >>

MaxModeRx == 6

InitMode == InitClient({TestConfig})

\* The reader reads the lines of ModeJoinedLines in their order
ReadModeJoined ==
    /\ rxCount < Len(ModeJoinedLines)
    /\ ReadLine(<<ModeJoinedLines[rxCount + 1]>>, Len(ModeJoinedLines))

NextMode ==
    \/ ConnectStart(1)
    \/ ConnectDial
    \/ ConnectSetConn
    \/ HandleConnect
    \/ Dispatch
    \/ ReadModeJoined
    \/ rxCount >= Len(ModeJoinedLines) /\ ReadLine(ModeLines, MaxModeRx)

SpecMode == InitMode /\ [][NextMode]_vars

\* The letters of a CHANMODES group, none for a group that is not there
ModeGroup(g) ==
    IF g <= Len(isupport.channelModes) THEN SeqToSet(isupport.channelModes[g]) ELSE {}

\* The changes a mode string makes, each letter with the argument it takes:
\* permission modes and the modes of groups A and B take one, those of group
\* C when they are added
RECURSIVE ModeChanges(_, _, _)
ModeChanges(chars, plus, args) ==
    IF chars = <<>> THEN <<>>
    ELSE IF Head(chars) \in {"+", "-"}
    THEN ModeChanges(Tail(chars), Head(chars) = "+", args)
    ELSE LET takes ==
                 \/ Head(chars) \in SeqToSet(isupport.modeOrder) \cup ModeGroup(1) \cup ModeGroup(2)
                 \/ plus /\ Head(chars) \in ModeGroup(3)
         IN  << [plus |-> plus, mode |-> Head(chars),
                 arg |-> IF takes /\ args # <<>> THEN Head(args) ELSE <<>>] >>
             \o ModeChanges(Tail(chars), plus,
                            IF takes /\ args # <<>> THEN Tail(args) ELSE args)

\* The permission modes of the nick n after the changes
RECURSIVE ModesAfter(_, _, _)
ModesAfter(modes, n, changes) ==
    IF changes = <<>> THEN modes
    ELSE LET ch == Head(changes)
         IN  ModesAfter(
                IF ch.mode \in SeqToSet(isupport.modeOrder) /\ LowerNick(ch.arg) = LowerNick(n)
                THEN (IF ch.plus THEN modes \cup {ch.mode} ELSE modes \ {ch.mode})
                ELSE modes,
                n, Tail(changes))

\* The userlist of the channel in the targets ts
ModeList(ts) == ts[CHOOSE i \in 1..Len(ts) : ts[i].name = ModeChannel].userlist

\* The last event handled is a MODE
ModeHandled == hist # <<>> /\ hist[Len(hist)].name = "packet.mode"

\* C26: when a MODE for a channel is handled, every user of the channel has
\* the modes it had, changed by the permission modes of the mode string whose
\* argument is its nick, each letter taking the next argument if it is a
\* permission mode, a mode of group A or B, or a mode of group C that is
\* added; the prefixes follow the modes.
C26_ModeArguments ==
    ModeHandled =>
        LET e == hist[Len(hist)]
            before == ModeList(e.pre.targets)
            after == ModeList(targets)
            changes == ModeChanges(Arg(e, 1), FALSE, SubSeq(e.args, 3, Len(e.args)))
        IN  /\ Len(after.users) = Len(before.users)
            /\ \A i \in 1..Len(before.users) :
                  LET n == before.users[i].nick
                  IN  /\ HasUser(after, n)
                      /\ SeqToSet(UserOf(after, n).modes) =
                            ModesAfter(SeqToSet(before.users[i].modes), n, changes)
                      /\ ModesConsistent(isupport, UserOf(after, n))

(***************************************************************************)
(* CutMessage (package ircutil); a text is the sequence of its bytes       *)
(***************************************************************************)
\* The bytes that start a rune of two, three and four bytes, and the bytes
\* that continue one
LeadBytes == [C3 |-> 2, E5 |-> 3, F0 |-> 4]

ContinuationBytes == {"A9", "BC", "9F", "98", "80"}

\* The number of bytes of s that `range` decodes as its first rune: the whole
\* encoding of a rune, one byte for anything else
RuneWidth(s) ==
    IF Head(s) \in DOMAIN LeadBytes
          /\ Len(s) >= LeadBytes[Head(s)]
          /\ \A i \in 2..LeadBytes[Head(s)] : s[i] \in ContinuationBytes
    THEN LeadBytes[Head(s)]
    ELSE 1

\* string(r) for the first rune of s: its bytes, U+FFFD for a byte that is
\* no rune
RuneString(s) ==
    IF RuneWidth(s) = 1 /\ Head(s) \in DOMAIN LeadBytes \cup ContinuationBytes
    THEN <<"EF", "BF", "BD">>
    ELSE SubSeq(s, 1, RuneWidth(s))

\* The loop of CutMessageNoSpace taking the text byte by byte
RECURSIVE CutBytes(_, _, _, _)
CutBytes(s, cutLength, result, current) ==
    IF s = <<>> THEN Append(result, current)
    ELSE IF Len(current) + 1 > cutLength
    THEN CutBytes(Tail(s), cutLength, Append(result, current), <<Head(s)>>)
    ELSE CutBytes(Tail(s), cutLength, result, Append(current, Head(s)))

\* The loop of CutMessageNoSpace
RECURSIVE CutRunes(_, _, _, _)
CutRunes(s, cutLength, result, current) ==
    IF s = <<>> THEN Append(result, current)
    ELSE LET r == RuneString(s)
             rest == SubSeq(s, RuneWidth(s) + 1, Len(s))
         IN  IF Len(current) + Len(r) > cutLength
             THEN CutRunes(rest, cutLength, Append(result, current), r)
             ELSE CutRunes(rest, cutLength, result, current \o r)

CutMessageNoSpace(text, overhead) == CutRunes(text, 510 - overhead, <<>>, <<>>)

\* The second loop of CutMessage
RECURSIVE CutTokens(_, _, _, _)
CutTokens(tokens, cutLength, result, current) ==
    IF tokens = <<>> THEN Append(result, current)
    ELSE LET flush == Len(current) + 1 + Len(Head(tokens)) > cutLength
             cur == IF flush THEN <<>> ELSE current
         IN  CutTokens(Tail(tokens), cutLength,
                       IF flush THEN Append(result, current) ELSE result,
                       (IF Len(cur) > 0 THEN Append(cur, " ") ELSE cur) \o Head(tokens))

\* CutMessage calls CutMessageNoSpace
HasLongToken(text, overhead) ==
    \E i \in 1..Len(SplitStr(text, " ")) : Len(SplitStr(text, " ")[i]) >= 510 - overhead

CutMessage(text, overhead) ==
    IF HasLongToken(text, overhead) THEN CutMessageNoSpace(text, overhead)
    ELSE CutTokens(SplitStr(text, " "), 510 - overhead, <<>>, <<>>)

\* A call of CutMessage
CutMessageCall(texts, overheads) ==
    /\ Alive
    /\ \E text \in texts, overhead \in overheads :
          Commit([Me EXCEPT !.lib = [op |-> "CutMessage", text |-> text,
                                    overhead |-> overhead,
                                    result |-> CutMessage(text, overhead)]])
    /\ UNCHANGED <<config, cpc, cnew, rpc, dpc, dloc, spc, sev, sctx, sres, rxCount,
                   emitCount>>

\* The runes of the texts: a letter, the space, and runes of two, three and
\* four bytes
TextRunes ==
    { <<"a">>, <<" ">>, <<"C3", "A9">>, <<"E5", "BC", "9F">>, <<"F0", "9F", "98", "80">> }

MaxTextRunes == 4

\* The texts of at most n runes
RECURSIVE Texts(_)
Texts(n) ==
    IF n = 0 THEN { <<>> }
    ELSE Texts(n - 1) \cup { t \o r : t \in Texts(n - 1), r \in TextRunes }

\* The overheads: none, and those that leave one to six bytes
Overheads == {0} \cup (504..509)

InitCut == InitClient({TestConfig})

\* One call for each text and overhead
NextCut == lib.op = "" /\ CutMessageCall(Texts(MaxTextRunes), Overheads)

SpecCut == InitCut /\ [][NextCut]_vars

\* The string is a sequence of whole runes
RECURSIVE WholeRunes(_)
WholeRunes(s) ==
    IF s = <<>> THEN TRUE
    ELSE /\ Head(s) \notin ContinuationBytes
         /\ Head(s) \in DOMAIN LeadBytes => RuneWidth(s) = LeadBytes[Head(s)]
         /\ WholeRunes(SubSeq(s, RuneWidth(s) + 1, Len(s)))

\* Every piece is of at most 510 - overhead bytes and ends with a whole rune
PiecesFit ==
    \A i \in 1..Len(lib.result) :
        Len(lib.result[i]) <= 510 - lib.overhead /\ WholeRunes(lib.result[i])

\* C27 as stated: whatever the text and the overhead from 0 to 509, every
\* piece CutMessage returns is of at most 510 - overhead bytes and does not
\* end within a rune of several bytes.
C27_AsStated == lib.op = "CutMessage" => PiecesFit

\* C27: the same for the overheads that leave room for a rune of four bytes,
\* the longest there is (0 <= overhead <= 506).
C27_PiecesFit ==
    (lib.op = "CutMessage" /\ lib.overhead <= 506) => PiecesFit

\* A text of several runes without a space was cut before a rune of several
\* bytes that would not fit whole
C27_Witness ==
    /\ lib.op = "CutMessage" /\ lib.overhead <= 506
    /\ Len(lib.result) >= 2
    /\ Len(lib.result[1]) < 510 - lib.overhead
    /\ lib.result[2][1] \in DOMAIN LeadBytes
    /\ Len(lib.result[1]) + LeadBytes[lib.result[2][1]] > 510 - lib.overhead

\* C28: joining the pieces, with a space if no token of the text reaches the
\* cut length and with nothing if one does, gives the text.
C28_RoundTrip ==
    lib.op = "CutMessage" =>
        JoinStr(lib.result,
                IF HasLongToken(lib.text, lib.overhead) THEN <<>> ELSE <<" ">>) = lib.text

(***************************************************************************)
(* ParsePacket on the line as the reader hands it over                     *)
(***************************************************************************)
\* unescapeTags.Replace on the atoms of a tag value
UnescapeTags(value) ==
    [i \in 1..Len(value) |->
        CASE value[i] = "\\s" -> " "
          [] value[i] = "\\:" -> ";"
          [] OTHER -> value[i]]

\* event.Tags of the tag block: the set of <<key, value>>
ParseTags(block) ==
    { LET kv == SplitN2(token, "=")
      IN  <<kv[1], IF Len(kv) = 2 THEN UnescapeTags(kv[2]) ELSE <<>>>> :
        token \in SeqToSet(SplitStr(block, ";")) }

\* strings.SplitN(line, " :", 2)
SplitText(line) ==
    LET at == { i \in 1..(Len(line) - 1) : line[i] = " " /\ line[i + 1] = ":" }
    IN  IF at = {} THEN <<line>>
        ELSE LET i == CHOOSE k \in at : \A j \in at : k <= j
             IN  <<SubSeq(line, 1, i - 1), SubSeq(line, i + 2, Len(line))>>

\* "Parse body" and "Parse CTCP" of ParsePacket, on the event e with its
\* tags and prefix set
ParseBody(e, line) ==
    LET split == SplitText(line)
        tokens == SplitStr(split[1], " ")
        text == IF Len(split) = 2 THEN split[2] ELSE <<>>
        ctcp == Head(tokens) \in {<<"PRIVMSG">>, <<"NOTICE">>}
                    /\ text # <<>> /\ Head(text) = "\\x01"
        verbtext == SplitN2(SelectSeq(text, LAMBDA x : x # "\\x01"), " ")
        kind == IF ~ctcp THEN "packet"
                ELSE IF Head(tokens) = <<"PRIVMSG">> THEN "ctcp" ELSE "ctcp-reply"
        verb == IF ctcp THEN verbtext[1] ELSE Head(tokens)
    IN  [e EXCEPT !.kind = kind, !.verb = verb,
                  !.name = kind \o "." \o
                           ConcatAtoms([i \in 1..Len(verb) |-> LowerVerb(verb[i])]),
                  !.args = Tail(tokens),
                  !.text = IF ~ctcp THEN text
                           ELSE IF Len(verbtext) = 2 THEN verbtext[2] ELSE <<>>]

\* "Parse prefix" of ParsePacket and what follows it
ParsePrefix(e, line) ==
    IF Head(line) # ":" THEN [err |-> "", panicked |-> FALSE, event |-> ParseBody(e, line)]
    ELSE LET split == SplitN2(line, " ")
             prefixTokens == SplitStr(Tail(split[1]), "!")
             userhost == IF Len(prefixTokens) > 1 THEN SplitStr(prefixTokens[2], "@")
                         ELSE <<>>
         IN  IF Len(split) < 2
             THEN [err |-> "ParsePacket: incomplete packet", panicked |-> FALSE, event |-> e]
             ELSE IF Len(prefixTokens) > 1 /\ Len(userhost) < 2
             THEN [err |-> "ParsePacket: invalid user@host format", panicked |-> FALSE,
                   event |-> e]
             ELSE [err |-> "", panicked |-> FALSE,
                   event |-> ParseBody(
                       [e EXCEPT !.nick = prefixTokens[1],
                                 !.user = IF Len(userhost) >= 2 THEN userhost[1] ELSE <<>>,
                                 !.host = IF Len(userhost) >= 2 THEN userhost[2] ELSE <<>>],
                       split[2])]

\* ParsePacket(line): the error, or the event; line[0] panics on what is
\* left of the line after a tag block that ends the line with its space
ParsePacket(line) ==
    LET e == NewEvent("packet", <<>>, "")
    IN  IF Len(line) = 0 THEN [err |-> "irc: empty line", panicked |-> FALSE, event |-> e]
        ELSE IF Head(line) # "@" THEN ParsePrefix(e, line)
        ELSE LET split == SplitN2(line, " ")
                 tags == ParseTags(Tail(split[1]))
                 account == IF \E t \in tags : t[1] = <<"account">>
                            THEN (CHOOSE t \in tags : t[1] = <<"account">>)[2] ELSE <<>>
             IN  IF Len(split) < 2
                 THEN [err |-> "irc: incomplete packet", panicked |-> FALSE, event |-> e]
                 ELSE IF Len(split[2]) = 0
                 THEN [err |-> "", panicked |-> TRUE, event |-> e]
                 ELSE ParsePrefix([e EXCEPT !.account = account], split[2])

\* One turn of the reader's loop on a line of `lines`, with CR and LF taken
\* off: the event is emitted, error.parse for an error unless the client has
\* quit; a panic in the reader goroutine ends the program
ReadRawLine(lines, maxRx) ==
    /\ Alive /\ rxCount < maxRx
    /\ \E k \in 1..Len(rpc), i \in 1..Len(lines) :
          LET parsed == ParsePacket(lines[i])
              c == [Me EXCEPT !.lib = [op |-> "ParsePacket", text |-> lines[i],
                                      overhead |-> 0, result |-> parsed]]
          IN  /\ rpc[k] = "read"
              /\ Commit(
                    IF parsed.panicked THEN [c EXCEPT !.panicked = "reader"]
                    ELSE IF parsed.err # ""
                    THEN (IF c.quit THEN c ELSE EmitNonBlocking(c, NewErrorEvent("parse")))
                    ELSE EmitNonBlocking(c,
                            [parsed.event EXCEPT !.rx = rxCount + 1, !.conn = k]))
    /\ rxCount' = rxCount + 1
    /\ UNCHANGED <<config, cpc, cnew, rpc, dpc, dloc, spc, sev, sctx, sres, emitCount>>

\* "", "@time=1", ":Other", ":Other!~other PRIVMSG Test :hi",
\* "@time=1;account=acc :Other!~other@127.0.0.2 PRIVMSG Test :hi there",
\* "PING :irc.example", ":Other ", ":Other!~other@127.0.0.2 PRIVMSG Test
\* :\x01ACTION waves\x01" and "@time=1 "
RawLines ==
    << <<>>,
       <<"@", "time", "=", "1">>,
       <<":", "Other">>,
       <<":", "Other", "!", "~other", " ", "PRIVMSG", " ", "Test", " ", ":", "hi">>,
       <<"@", "time", "=", "1", ";", "account", "=", "acc", " ", ":", "Other", "!",
         "~other", "@", "127.0.0.2", " ", "PRIVMSG", " ", "Test", " ", ":", "hi", " ",
         "there">>,
       <<"PING", " ", ":", "irc.example">>,
       <<":", "Other", " ">>,
       <<":", "Other", "!", "~other", "@", "127.0.0.2", " ", "PRIVMSG", " ", "Test", " ",
         ":", "\\x01", "ACTION", " ", "waves", "\\x01">>,
       <<"@", "time", "=", "1", " ">> >>

MaxParseRx == 2

InitParse == InitClient({TestConfig})

NextParse ==
    \/ ConnectStart(1)
    \/ ConnectDial
    \/ ConnectSetConn
    \/ HandleConnect
    \/ Dispatch
    \/ ReadRawLine(RawLines, MaxParseRx)

SpecParse == InitParse /\ [][NextParse]_vars

\* The line without its tag block, if it has one that a space ends
AfterTags(line) ==
    IF line # <<>> /\ Head(line) = "@" /\ IndexOfAtom(line, " ") # 0
    THEN SubSeq(line, IndexOfAtom(line, " ") + 1, Len(line))
    ELSE line

\* The prefix of the line, if it has one
PrefixOfLine(line) ==
    LET rest == AfterTags(line)
    IN  IF rest = <<>> \/ Head(rest) # ":" THEN <<>>
        ELSE IF IndexOfAtom(rest, " ") = 0 THEN rest
        ELSE SubSeq(rest, 1, IndexOfAtom(rest, " ") - 1)

\* The lines for which ParsePacket is to return an error: the empty line, a
\* tag block or a prefix that no space follows, a prefix with "!" and no
\* "@" after it
Malformed(line) ==
    \/ line = <<>>
    \/ Head(line) = "@" /\ IndexOfAtom(line, " ") = 0
    \/ PrefixOfLine(line) # <<>> /\ IndexOfAtom(AfterTags(line), " ") = 0
    \/ LET prefix == PrefixOfLine(line)
           bang == IndexOfAtom(prefix, "!")
       IN  bang # 0 /\ IndexOfAtom(SubSeq(prefix, bang + 1, Len(prefix)), "@") = 0

\* C29: ParsePacket returns an error for the empty line, for a tag block or
\* a prefix that no space follows and for a prefix with "!" and no "@" after
\* it, an event for every other line, and it never panics.
C29_ParseErrors ==
    lib.op = "ParsePacket" =>
        /\ ~lib.result.panicked
        /\ (lib.result.err # "") = Malformed(lib.text)


(***************************************************************************)
(* SpecDefer: nick rejections while a CAP LS holds nick changes locked     *)
(***************************************************************************)
DeferLines ==
    << CapPacket(<< <<"*">>, <<"LS">>, <<"*">> >>, <<"multi-prefix">>),
       CapPacket(<< <<"*">>, <<"LS">> >>, <<"multi-prefix">>),
       CapPacket(<< <<"*">>, <<"ACK">> >>, <<"multi-prefix">>),
       Packet("433", Server, << <<"*">>, <<"Test">> >>, <<"Nickname is already in use">>),
       Packet("436", Server, << <<"*">>, <<"Test", "2">> >>, <<"Nickname collision">>),
       Packet("432", Server, << <<"*">>, <<"Other">> >>, <<"Erroneous nickname">>),
       Packet("431", Server, << <<"*">> >>, <<"No nickname given">>),
       Packet("001", Server, << <<"Test">> >>, <<"Welcome">>) >>

MaxDeferRx == 4

InitDefer == InitClient({TestConfig})

NextDefer ==
    \/ ConnectStart(1)
    \/ ConnectDial
    \/ ConnectSetConn
    \/ HandleConnectCapLS
    \/ HandleConnectPass
    \/ HandleConnectNick
    \/ HandleConnectUser
    \/ Dispatch
    \/ ReadLine(DeferLines, MaxDeferRx)

SpecDefer == InitDefer /\ [][NextDefer]_vars

\* The NICK lines the rotation may choose for a rejection of `rejected`
ReplacementLines(rejected) ==
    {<<"NICK ">> \o n :
        n \in IF NickAfter(rejected) # {} THEN NickAfter(rejected) ELSE FallbackNicks}

IsNickLine(line) == Len(line) >= 1 /\ line[1] = "NICK "

\* The h-th handled event is one of the four numerics, whatever its arguments
IsRejectionNumeric(h) == hist[h].name \in NickRejected

\* Where the handling of the h-th event sent CAP END (0 if it did not)
CapEndAt(h) ==
    LET lines == LinesAt(h)
    IN  IF \E i \in 1..Len(lines) : lines[i] = <<"CAP END">>
        THEN CHOOSE i \in 1..Len(lines) : lines[i] = <<"CAP END">>
        ELSE 0

\* C30: a 431/432/433/436 handled while a CAP LS reply holds nick changes
\* locked sends no NICK while it is handled; the handling of a CAP line sends
\* a NICK only directly behind its CAP END; and when CAP END is sent after
\* such a rejection of a client without an accepted nick, the line sent right
\* after CAP END is the NICK for the replacement chosen at the most recent of
\* these rejections.
C30_DeferredNick ==
    /\ \A h \in 1..Len(hist) :
          (IsRejectionNumeric(h) /\ hist[h].pre.locked)
             => \A i \in 1..Len(LinesAt(h)) : ~IsNickLine(LinesAt(h)[i])
    /\ \A h \in 1..Len(hist) :
          hist[h].name = "packet.cap"
             => \A i \in 1..Len(LinesAt(h)) :
                   IsNickLine(LinesAt(h)[i]) => (i > 1 /\ i - 1 = CapEndAt(h))
    /\ \A h \in 1..Len(hist) :
          (CapEndAt(h) > 0 /\ PrimedBefore(h) # {} /\ (h < Len(hist) \/ dpc = "idle"))
             => /\ Len(LinesAt(h)) > CapEndAt(h)
                /\ LinesAt(h)[CapEndAt(h) + 1]
                      \in ReplacementLines(hist[LastPrimed(h)].args[2])

\* Nick was rejected between the CAP LS reply and the CAP ACK: the rejection
\* sent nothing, and the ACK was answered with CAP END and then NICK Test2
C30_Witness ==
    \E k \in 1..Len(hist) : \E h \in (k + 1)..Len(hist) :
        /\ IsRejection(k) /\ hist[k].pre.locked /\ hist[k].pre.nick = <<>>
        /\ hist[k].args[2] = config.Nick
        /\ LinesAt(k) = <<>>
        /\ hist[h].name = "packet.cap"
        /\ LinesAt(h) = << <<"CAP END">>, <<"NICK ">> \o config.Alternatives[1] >>


(***************************************************************************)
(* SpecTick: the ticker of handleEventLoop and the keepalive PING          *)
(***************************************************************************)
\* time.Now() moves on by step, but not past the next tick of the ticker.  A
\* step is long: the dispatcher has worked off its inbox and the tick before,
\* and no call of Connect is under way.
Advance(step, maxTime) ==
    /\ Alive /\ now < ticker.next /\ now + step <= ticker.next /\ now + step <= maxTime
    /\ events = <<>> /\ spill = <<>> /\ dpc = "idle" /\ cpc = "idle" /\ ~ticker.pending
    /\ Commit([Me EXCEPT !.now = @ + step])
    /\ UNCHANGED <<config, dpc, dloc, CallerVars>>

\* The runtime sends on ticker.C, a channel of capacity one: a tick that finds
\* the last one still waiting is dropped
TickerFire ==
    /\ Alive /\ now = ticker.next
    /\ Commit([Me EXCEPT !.ticker.next = @ + TickerPeriod, !.ticker.pending = TRUE])
    /\ UNCHANGED <<config, dpc, dloc, CallerVars>>

\* case "<-ticker.C" of handleEventLoop
DispatchTick ==
    /\ Alive /\ dpc = "idle" /\ ticker.pending
    /\ \E r \in RandomSuffixes :
          Commit(HandleAndFinish(Enter([Me EXCEPT !.ticker.pending = FALSE],
                                       NewEvent("client", <<"tick">>, "client.tick"), r)))
    /\ UNCHANGED <<config, dpc, dloc, CallerVars>>

\* A caller's client.Emit(irc.NewEvent("hook", "tick"))
EmitTick(maxEmits) ==
    /\ Alive /\ emitCount < maxEmits
    /\ destroyed \/ Len(events) < ChanCap
    /\ Commit(Emit(Me, NewEvent("hook", <<"tick">>, "hook.tick")))
    /\ emitCount' = emitCount + 1
    /\ UNCHANGED <<config, dpc, dloc, cpc, cnew, rpc, spc, sev, sctx, sres, rxCount>>

TickLines == << Packet("PING", <<>>, <<>>, <<"irc.example">>) >>

MaxTickRx == 1
MaxTickEmits == 1

\* The clock moves in steps of thirty seconds (60 ticks), up to 150 seconds
\* (300 ticks)
TickStep == 60
MaxTickTime == 300

InitTick == InitClient({TestConfig})

NextTick ==
    \/ ConnectStart(1)
    \/ ConnectDial
    \/ ConnectSetConn
    \/ HandleConnectCapLS
    \/ HandleConnectPass
    \/ HandleConnectNick
    \/ HandleConnectUser
    \/ Dispatch
    \/ ReadLine(TickLines, MaxTickRx)
    \/ Advance(TickStep, MaxTickTime)
    \/ TickerFire
    \/ DispatchTick
    \/ EmitTick(MaxTickEmits)

SpecTick == InitTick /\ [][NextTick]_vars

\* The handling of the h-th event sent a PING
PingSentAt(h) ==
    \E i \in 1..Len(LinesAt(h)) : LinesAt(h)[i][1] = "PING :"

\* The k-th handled tick event is one of the ticker
FromTicker(k) == hist[ticker.ticks[k].at].kind = "client"

\* C31: every tick the ticker brings into the dispatcher is handled as an
\* event named hook.tick, and while a tick event is handled on a connection
\* to which a line has been written, a PING is sent if and only if more than
\* 120 seconds have passed since the last line was written.
C31_Keepalive ==
    \A k \in 1..Len(ticker.ticks) :
        LET t == ticker.ticks[k]
        IN  /\ FromTicker(k) => hist[t.at].name = "hook.tick"
            /\ (t.wrote # NeverWritten /\ hist[t.at].pre.conn # 0
                   /\ (t.at < Len(hist) \/ dpc = "idle"))
                  => (PingSentAt(t.at) <=> t.time - t.wrote > PingAfter)


(***************************************************************************)
(* SpecISupport: the 005 numerics and the registry                         *)
(***************************************************************************)
ISupportLines ==
    << Packet("005", Server,
              << <<"Test">>, <<"CHANTYPES", "=", "#">>, <<"EXCEPTS">>,
                 <<"NETWORK", "=", "Test">> >>, <<"are supported">>),
       Packet("005", Server,
              << <<"Test">>, <<"K", "=", "a", "=", "b">>, <<"MODES", "=">> >>,
              <<"are supported">>),
       Packet("005", Server,
              << <<"Test">>, <<"NETWORK", "=", "Other">>, <<"CHANTYPES">> >>,
              <<"are supported">>) >>

MaxISupportRx == 2

InitISupport == InitClient({TestConfig})

NextISupport ==
    \/ ConnectStart(1)
    \/ ConnectDial
    \/ ConnectSetConn
    \/ HandleConnectCapLS
    \/ HandleConnectPass
    \/ HandleConnectNick
    \/ HandleConnectUser
    \/ Dispatch
    \/ ReadLine(ISupportLines, MaxISupportRx)

SpecISupport == InitISupport /\ [][NextISupport]_vars

\* The key of a 005 token: the text before its first "="
TokenKey(token) == SplitN2(token, "=")[1]

\* The value of a 005 token: the text after its first "=", empty without one
TokenValue(token) ==
    IF Len(SplitN2(token, "=")) = 2 THEN SplitN2(token, "=")[2] ELSE <<>>

\* The registry holds the value under the key
Registered(key, value) == <<key, value>> \in isupport.raw

\* A token K=a=b of the 005 handled last
HasSecondEquals(token) == Len(SplitStr(token, "=")) > 2

\* C32: when a 005 has been handled, the registry holds for each of its
\* arguments after the first the text after the token's first "=" (the empty
\* value without "=") under the text before it.
C32_ISupportTokens ==
    (hist # <<>> /\ hist[Len(hist)].name = "packet.005" /\ dpc = "idle") =>
        \A i \in 2..Len(hist[Len(hist)].args) :
            Registered(TokenKey(hist[Len(hist)].args[i]),
                       TokenValue(hist[Len(hist)].args[i]))


(***************************************************************************)
(* SpecClose: Destroy beside callers of Emit, EmitNonBlocking and          *)
(* SendQueued                                                              *)
(***************************************************************************)
\* The goroutines that can send on Client.events or Client.sends
ChannelSenders == {"emit", "emitNonBlocking", "spill", "sendQueued", "sendSpill"}

\* EmitNonBlocking up to its select: "if client.Destroyed()"
EmitNonBlockingCheck(maxEmits) ==
    /\ Alive /\ enb.pc = "idle" /\ emitCount < maxEmits
    /\ Commit([Me EXCEPT
          !.api = Append(@, EmitCall("EmitNonBlocking", emitCount + 1)),
          !.enb = [pc |-> IF destroyed THEN "idle" ELSE "select", id |-> emitCount + 1]])
    /\ emitCount' = emitCount + 1
    /\ UNCHANGED <<config, dpc, dloc, cpc, cnew, rpc, spc, sev, sctx, sres, rxCount>>

\* The select of EmitNonBlocking: a send on the closed channel is ready and
\* panics; otherwise the inbox takes the event if it has room and a goroutine
\* is spawned if not
EmitNonBlockingSelect ==
    /\ Alive /\ enb.pc = "select"
    /\ LET e == [NewEvent("test", <<"async">>, "test.async") EXCEPT !.id = enb.id]
           c == [Me EXCEPT !.enb.pc = "idle"]
       IN  Commit(IF closed THEN [c EXCEPT !.panicked = "emitNonBlocking"]
                  ELSE IF Len(events) < ChanCap THEN [c EXCEPT !.events = Append(@, e)]
                  ELSE [c EXCEPT !.spill = Append(@, e)])
    /\ UNCHANGED <<config, dpc, dloc, CallerVars>>

\* "go func() { client.events <- &event }()": the goroutine waits while the
\* inbox is full, and its send panics once the channel is closed
SpillSend ==
    /\ Alive /\ spill # <<>>
    /\ closed \/ Len(events) < ChanCap
    /\ Commit(IF closed THEN [Me EXCEPT !.panicked = "spill"]
              ELSE [Me EXCEPT !.events = Append(@, Head(spill)), !.spill = Tail(@)])
    /\ UNCHANGED <<config, dpc, dloc, CallerVars>>

\* Client.SendQueued by a goroutine of the application, whatever the state of
\* the client: the send of its select panics on the closed channel
SendQueuedAny(maxLines) ==
    /\ Alive /\ CallCount("SendQueued") < maxLines
    /\ LET n == CallCount("SendQueued") + 1
           c == [Me EXCEPT !.api = Append(@, ApiCall("SendQueued", n, Len(rpc), ""))]
       IN  Commit(IF closed THEN [c EXCEPT !.panicked = "sendQueued"]
                  ELSE SendQueued(c, QueuedLine(n)))
    /\ UNCHANGED <<config, dpc, dloc, CallerVars>>

\* "go func() { client.sends <- line }()"
SendSpillSend ==
    /\ Alive /\ sendSpill # <<>>
    /\ closed \/ Len(sends) < ChanCap
    /\ Commit(IF closed THEN [Me EXCEPT !.panicked = "sendSpill"]
              ELSE [Me EXCEPT !.sends = Append(@, Head(sendSpill)),
                              !.sendSpill = Tail(@)])
    /\ UNCHANGED <<config, dpc, dloc, CallerVars>>

\* One call of Emit (within EmitSync) and as many of EmitNonBlocking as fill
\* the inbox and spawn a goroutine; as many of SendQueued as fill the queue
\* and spawn one
MaxCloseEmits == 64
MaxCloseLines == 65

InitClose == InitClient({TestConfig})

\* The application of a run either emits events or queues lines; the
\* dispatcher handles hook.add_target and is then held up by a handler, so
\* that the inbox fills
NextClose ==
    \/ CallCount("SendQueued") = 0 /\ EmitSyncCall(1)
    \/ EmitSyncSend
    \/ EmitSyncReturn
    \/ CallCount("SendQueued") = 0 /\ CallCount("EmitSync") = 0
          /\ EmitNonBlockingCheck(MaxCloseEmits)
    \/ EmitNonBlockingSelect
    \/ SpillSend
    \/ emitCount = 0 /\ SendQueuedAny(MaxCloseLines)
    \/ SendSpillSend
    \/ Destroy
    \/ hist = <<>> /\ Dispatch
    \/ DispatcherEnd

SpecClose == InitClose /\ [][NextClose]_vars

\* C33: no goroutine of Emit, EmitNonBlocking or SendQueued has sent on a
\* channel that Destroy had closed (such a send panics).
C33_NoSendOnClosed == panicked \notin ChannelSenders


(***************************************************************************)
(* SpecSwap: Connect on a connected client and the end of the old reader   *)
(***************************************************************************)
SwapLines == << Packet("376", Server, << <<"Test">> >>, <<"End of MOTD">>) >>

MaxSwapConns == 2
MaxSwapRx == 1

InitSwap == InitClient({TestConfig})

\* The server closes no connection: a read fails on a connection that the
\* client has closed
NoneOpen == \A k \in 1..Len(rpc) : rpc[k] = "read" => k \notin open

NextSwap ==
    \/ ConnectStart(MaxSwapConns)
    \/ ConnectDial
    \/ ConnectSetConn
    \/ HandleConnect
    \/ Dispatch
    \/ ReadLine(SwapLines, MaxSwapRx)
    \/ NoneOpen /\ ReadFail
    \/ ReaderClose

SpecSwap == InitSwap /\ [][NextSwap]_vars

\* The step is the end of the reader goroutine of connection k
ReaderEnds(k) == k \in 1..Len(rpc) /\ rpc[k] = "close" /\ rpc'[k] = "done"

\* C34: the end of the reader of connection k closes no connection but k,
\* leaves Client.conn and Client.ready alone while another connection is the
\* client's, and does not panic on an empty Client.conn.
C34_ReaderEndsOwnConnection ==
    [][\A k \in 1..Len(rpc) :
          ReaderEnds(k) =>
             /\ open \ open' \subseteq {k}
             /\ (conn # 0 /\ conn # k) => (conn' = conn /\ ready' = ready)
             /\ panicked' = ""]_vars


(***************************************************************************)
(* SpecRenew: a second connection on which the server answers the rejoin   *)
(* of a channel the client still holds                                     *)
(***************************************************************************)
Prefix005 ==
    Packet("005", Server, << Self, <<"PREFIX", "=", "(", "o", "v", ")", "@", "+">> >>,
           <<"are supported">>)

OwnJoin == PacketFrom("JOIN", Self, <<"~test">>, <<"127.0.0.1">>, <<>>, << <<"#a">> >>, <<>>)

EndOfNames == Packet("366", Server, << Self, <<"#a">> >>, <<"End of /NAMES list.">>)

\* What the server sends on the first connection: "Test +Other Third" are on #a
FirstLines ==
    << Packet("001", Server, << Self >>, <<"Welcome">>),
       Prefix005,
       OwnJoin,
       Names(Self \o <<" ", "+">> \o Other \o <<" ">> \o Third),
       EndOfNames >>

\* What it sends on the second: by now "Test @Other" are on #a
SecondLines ==
    << Packet("001", Server, << Self >>, <<"Welcome">>),
       Prefix005,
       Packet("376", Server, << Self >>, <<"End of /MOTD command.">>),
       OwnJoin,
       Names(Self \o <<" ", "@">> \o Other),
       EndOfNames >>

RenewLines == FirstLines \o SecondLines

RenewHandlers == { [prevents |-> {}] }

InitRenew == InitClient({TestConfig})

\* The application registers its handler before it connects
AddHandlerFirst == cpc = "idle" /\ rpc = <<>> /\ AddHandler(RenewHandlers, 1)

\* Connect, once the handler is registered and no reader is left
ConnectNext ==
    /\ Len(handlers) = 1
    /\ \A k \in 1..Len(rpc) : rpc[k] = "done"
    /\ ConnectStart(2)

\* The reader of the k-th connection reads the lines of the connection in
\* their order; on the first connection the server sends a line when the
\* client has handled the one before
ReadRenew ==
    /\ cpc = "idle"
    /\ \/ Len(rpc) = 1 /\ rxCount < Len(FirstLines) /\ events = <<>> /\ dpc = "idle"
       \/ Len(rpc) = 2 /\ rxCount < Len(RenewLines)
    /\ ReadLine(<<RenewLines[rxCount + 1]>>, Len(RenewLines))

\* The server closes the first connection after its last line
FirstClosed == Len(rpc) = 1 /\ rxCount = Len(FirstLines) /\ cpc = "idle" /\ ReadFail

NextRenew ==
    \/ AddHandlerFirst
    \/ ConnectNext
    \/ ConnectDial
    \/ ConnectSetConn
    \/ HandleConnect
    \/ Dispatch
    \/ ReadRenew
    \/ FirstClosed
    \/ ReaderClose

SpecRenew == InitRenew /\ [][NextRenew]_vars

\* The h-th handled event was read from the second connection
OfSecond(h) == hist[h].conn = 2 /\ hist[h].kind = "packet"

\* The pointers of the targets in the target set
TargetPtrSet == {targets[i].ptr : i \in 1..Len(targets)}

\* The targets with which the handlers were called are in the target set
TargetsAreMembers ==
    \A i \in 1..Len(hlog) :
        OfSecond(hlog[i][1]) => SeqToSet(hlog[i][3]) \subseteq TargetPtrSet

\* The 366 of the second connection has been handled
Renewed ==
    /\ dpc = "idle"
    /\ \E h \in 1..Len(hist) : OfSecond(h) /\ hist[h].name = "packet.366"

\* The userlist of #a is that of the second NAMES reply: Test, and Other as
\* an op
RenewedList ==
    /\ TargetIndex(Me, "channel", <<"#a">>) # 0
    /\ {NamesList.users[i].nick : i \in 1..Len(NamesList.users)} = {Self, Other}
    /\ UserOf(NamesList, Other).modes = <<"o">>
    /\ UserOf(NamesList, Self).modes = <<>>

\* C35: the events of a channel we rejoin on a new connection go to the
\* Channel of the target set, the targets of these events are members of the
\* target set, and after 366 the userlist holds the users and modes of the new
\* NAMES reply and nothing else.
C35_RejoinedChannel ==
    /\ TargetsAreMembers
    /\ Renewed => RenewedList

\* ---------------------------------------------------------------------
\* A primed nick change over two CAP ACKs and two connections

CapLSLine == CapPacket(<< <<"*">>, <<"LS">> >>, <<"multi-prefix">>)

CapAckLine == CapPacket(<< <<"*">>, <<"ACK">> >>, <<"multi-prefix">>)

\* The first connection: the nick is rejected while the CAP LS reply holds
\* nick changes locked, and the server acknowledges twice before 001
PrimedFirstLines ==
    << CapLSLine,
       Packet("433", Server, << <<"*">>, <<"Test">> >>, <<"Nickname is already in use">>),
       CapAckLine,
       CapAckLine,
       Packet("001", Server, << <<"Test", "2">> >>, <<"Welcome">>) >>

\* The second connection rejects no nick
PrimedSecondLines ==
    << CapLSLine,
       CapAckLine,
       Packet("001", Server, << <<"Test", "2">> >>, <<"Welcome">>) >>

PrimedLines == PrimedFirstLines \o PrimedSecondLines

InitPrimed == InitClient({TestConfig})

\* Connect when no reader is left
ConnectPrimed ==
    /\ \A k \in 1..Len(rpc) : rpc[k] = "done"
    /\ ConnectStart(2)

\* The reader of a connection reads the lines of the connection in their order
ReadPrimed ==
    /\ cpc = "idle"
    /\ \/ Len(rpc) = 1 /\ rxCount < Len(PrimedFirstLines)
       \/ Len(rpc) = 2 /\ rxCount < Len(PrimedLines)
    /\ ReadLine(<<PrimedLines[rxCount + 1]>>, Len(PrimedLines))

\* The server closes the first connection after its last line
PrimedFirstClosed ==
    Len(rpc) = 1 /\ rxCount = Len(PrimedFirstLines) /\ cpc = "idle" /\ ReadFail

NextPrimed ==
    \/ ConnectPrimed
    \/ ConnectDial
    \/ ConnectSetConn
    \/ HandleConnect
    \/ Dispatch
    \/ ReadPrimed
    \/ PrimedFirstClosed
    \/ ReaderClose

SpecPrimed == InitPrimed /\ [][NextPrimed]_vars

\* The handling of the h-th event sent CAP END and a NICK behind it
ReplayAt(h) ==
    /\ CapEndAt(h) > 0
    /\ \E i \in 1..Len(LinesAt(h)) : i > CapEndAt(h) /\ IsNickLine(LinesAt(h)[i])

\* C36: a CAP END is followed by the replay of a primed nick change only if a
\* nick was rejected under the lock earlier on the same connection and no
\* CAP END since that rejection has replayed it already.
C36_PrimedOnce ==
    \A h \in 1..Len(hist) :
        ReplayAt(h) =>
            \E k \in PrimedBefore(h) :
                /\ hist[k].conn = hist[h].conn
                /\ \A j \in (k + 1)..(h - 1) : ~ReplayAt(j)

\* ---------------------------------------------------------------------
\* SASL PLAIN over two connections

AuthContinue == Packet("AUTHENTICATE", <<>>, << <<"+">> >>, <<>>)

\* The first connection: the exchange succeeds (903), and the server sends
\* a further AUTHENTICATE + behind it
SaslFirstLines ==
    << CapPacket(<< <<"*">>, <<"LS">> >>, <<"sasl", "=", "PLAIN">>),
       CapPacket(<< <<"*">>, <<"ACK">> >>, <<"sasl">>),
       AuthContinue,
       Packet("903", Server, << <<"Test">> >>, <<"SASL authentication successful">>),
       AuthContinue,
       Packet("001", Server, << <<"Test">> >>, <<"Welcome">>) >>

\* The second connection: AUTHENTICATE + with no exchange begun, a failure,
\* and AUTHENTICATE + again
SaslSecondLines ==
    << AuthContinue,
       Packet("904", Server, << <<"Test">> >>, <<"SASL authentication failed">>),
       AuthContinue >>

SaslLines == SaslFirstLines \o SaslSecondLines

InitSasl == InitClient({SaslConfig})

\* Connect when no reader is left
ConnectSasl ==
    /\ \A k \in 1..Len(rpc) : rpc[k] = "done"
    /\ ConnectStart(2)

\* The reader of a connection reads the lines of the connection in their order
ReadSasl ==
    /\ cpc = "idle"
    /\ \/ Len(rpc) = 1 /\ rxCount < Len(SaslFirstLines)
       \/ Len(rpc) = 2 /\ rxCount < Len(SaslLines)
    /\ ReadLine(<<SaslLines[rxCount + 1]>>, Len(SaslLines))

\* The server closes the first connection after its last line
SaslFirstClosed ==
    Len(rpc) = 1 /\ rxCount = Len(SaslFirstLines) /\ cpc = "idle" /\ ReadFail

NextSasl ==
    \/ ConnectSasl
    \/ ConnectDial
    \/ ConnectSetConn
    \/ HandleConnect
    \/ Dispatch
    \/ ReadSasl
    \/ SaslFirstClosed
    \/ ReaderClose

SpecSasl == InitSasl /\ [][NextSasl]_vars

\* The handling of the h-th event sent the line
SentLineAt(h, line) == \E i \in 1..Len(LinesAt(h)) : LinesAt(h)[i] = line

\* The h-th handled event concluded an exchange
Concludes(h) == hist[h].name \in {"packet.903", "packet.904", "packet.906"}

\* An exchange begun on the connection of the h-th event is open at h
ExchangeOpen(h) ==
    \E k \in 1..(h - 1) :
        /\ hist[k].conn = hist[h].conn
        /\ SentLineAt(k, <<"AUTHENTICATE ", "PLAIN">>)
        /\ \A j \in (k + 1)..(h - 1) : ~Concludes(j)

\* C37: the credentials are sent only while an AUTHENTICATE + is handled, and
\* only if the client sent AUTHENTICATE PLAIN earlier on the same connection
\* and no 903, 904 or 906 was handled in between.
C37_CredentialsInExchange ==
    \A h \in 1..Len(hist) :
        SentLineAt(h, <<"AUTHENTICATE ">> \o PlainString) =>
            /\ hist[h].name = "packet.authenticate"
            /\ Arg(hist[h], 0) = <<"+">>
            /\ ExchangeOpen(h)


(***************************************************************************)
(* SpecShared: a userlist changed by one goroutine and read by another     *)
(***************************************************************************)
\* User{}
ZeroUser == NewUser(<<>>, <<>>, <<>>, <<>>)

\* What a reader of the list l gets: all users for Users, and for User the
\* user of the nick, if any
ReadOf(l, op, n) ==
    IF op = "Users" THEN l.users
    ELSE IF HasUser(l, n) THEN <<UserOf(l, n)>> ELSE <<>>

\* The list as the last finished call left it
Committed == IF sh.mpc = "idle" THEN sh.list ELSE sh.prev

\* A reader is within its call
Reading == sh.rpc \in {"sized", "copy"}

\* Insert, Remove and Rename hold the write lock: they run while no call
\* holds the read lock, and as one step
WriteLocked(maxCalls, op, l) ==
    /\ Alive /\ sh.calls < maxCalls
    /\ sh.mpc = "idle" /\ sh.rpc # "copy"
    /\ Commit([Me EXCEPT !.sh = [@ EXCEPT
          !.list = l, !.prev = sh.list, !.after = l, !.mop = op, !.calls = @ + 1,
          !.seen = IF Reading THEN @ \cup {l.users} ELSE @]])
    /\ UNCHANGED <<config, dpc, dloc, CallerVars>>

SharedInsert(maxCalls, users) ==
    \E u \in users : WriteLocked(maxCalls, "Insert", ListInsert(TestISupport, sh.list, u))

SharedRemove(maxCalls, nicks) ==
    \E n \in nicks : WriteLocked(maxCalls, "Remove", ListRemove(sh.list, n))

SharedRename(maxCalls, nicks) ==
    \E from \in nicks, newNick \in nicks :
        WriteLocked(maxCalls, "Rename", ListRename(TestISupport, sh.list, from, newNick))

\* AddMode and RemoveMode up to "user.Modes = ...", under the read lock
ModeBegin(maxCalls, op, n, mode) ==
    /\ Alive /\ sh.calls < maxCalls
    /\ sh.mpc = "idle"
    /\ LET i == UserIndex(sh.list, n)
           has == i # 0 /\ IndexOfAtom(sh.list.users[i].modes, mode) # 0
           returns == ~IsPermissionMode(TestISupport, mode) \/ i = 0
                         \/ (op = "AddMode") = has
           after == IF op = "AddMode" THEN ListAddMode(TestISupport, sh.list, n, mode)
                    ELSE ListRemoveMode(TestISupport, sh.list, n, mode)
       IN  Commit([Me EXCEPT !.sh =
              IF returns THEN [@ EXCEPT !.calls = @ + 1, !.mop = op, !.prev = sh.list,
                                        !.after = sh.list]
              ELSE [@ EXCEPT
                      !.calls = @ + 1, !.mop = op, !.mnick = n, !.mmode = mode,
                      !.mpc = "modes", !.prev = sh.list, !.after = after,
                      !.mhigh = HighestMode(sh.list.users[i]),
                      !.list.users[i].modes =
                          IF op = "AddMode"
                          THEN SortModes(TestISupport, Append(@, mode))
                          ELSE ReplaceOnce(@, mode),
                      !.seen = IF Reading THEN @ \cup {after.users} ELSE @]])
    /\ UNCHANGED <<config, dpc, dloc, CallerVars>>

SharedAddMode(maxCalls, nicks, modes) ==
    \E n \in nicks, mode \in modes : ModeBegin(maxCalls, "AddMode", n, mode)

SharedRemoveMode(maxCalls, nicks, modes) ==
    \E n \in nicks, mode \in modes : ModeBegin(maxCalls, "RemoveMode", n, mode)

\* "user.Prefixes = ..."
ModePrefixes ==
    /\ Alive /\ sh.mpc = "modes"
    /\ LET i == UserIndex(sh.list, sh.mnick)
       IN  Commit([Me EXCEPT !.sh = [@ EXCEPT
              !.mpc = "prefixes",
              !.list.users[i].prefixes =
                  IF sh.mop = "AddMode"
                  THEN PrefixesOf(TestISupport, sh.list.users[i].modes)
                  ELSE ReplaceOnce(@, PrefixOf(TestISupport, sh.mmode))]])
    /\ UNCHANGED <<config, dpc, dloc, CallerVars>>

\* "user.updatePrefixedNick()"
ModePrefixedNick ==
    /\ Alive /\ sh.mpc = "prefixes"
    /\ LET i == UserIndex(sh.list, sh.mnick)
       IN  Commit([Me EXCEPT !.sh = [@ EXCEPT
              !.mpc = "nick",
              !.list.users[i] = UpdatePrefixedNick(@)]])
    /\ UNCHANGED <<config, dpc, dloc, CallerVars>>

\* The sort if the highest mode changed, and the return
ModeSort ==
    /\ Alive /\ sh.mpc = "nick"
    /\ LET u == UserOf(sh.list, sh.mnick)
       IN  Commit([Me EXCEPT !.sh = [@ EXCEPT
              !.mpc = "idle",
              !.list = IF sh.list.autosort /\ sh.mhigh # HighestMode(u)
                       THEN ListSort(TestISupport, @) ELSE @]])
    /\ UNCHANGED <<config, dpc, dloc, CallerVars>>

\* The lists a call that begins now may find
SeenAtStart(op, n) ==
    {ReadOf(Committed, op, n)} \cup
        (IF sh.mpc # "idle" THEN {ReadOf(sh.after, op, n)} ELSE {})

\* List.User(nick): the copy of the user under the read lock
SharedUser(nicks) ==
    /\ Alive /\ sh.rpc = "idle"
    /\ \E n \in nicks :
          Commit([Me EXCEPT !.sh = [@ EXCEPT
              !.rpc = "done", !.rop = "User",
              !.snap = ReadOf(sh.list, "User", n),
              !.seen = SeenAtStart("User", n)]])
    /\ UNCHANGED <<config, dpc, dloc, CallerVars>>

\* List.Users: "make([]User, len(list.users))", before the lock is taken
UsersLen ==
    /\ Alive /\ sh.rpc = "idle"
    /\ Commit([Me EXCEPT !.sh = [@ EXCEPT
          !.rpc = "sized", !.rop = "Users", !.rlen = Len(sh.list.users),
          !.seen = SeenAtStart("Users", <<>>)]])
    /\ UNCHANGED <<config, dpc, dloc, CallerVars>>

\* "list.mutex.RLock()"
UsersRLock ==
    /\ Alive /\ sh.rpc = "sized"
    /\ Commit([Me EXCEPT !.sh = [@ EXCEPT
          !.rpc = "copy", !.ri = 1, !.snap = [i \in 1..sh.rlen |-> ZeroUser]]])
    /\ UNCHANGED <<config, dpc, dloc, CallerVars>>

\* One turn of "for i := range list.users": result[i] = *list.users[i], which
\* panics if i is out of the range of result; after the last turn the lock is
\* given back
UsersCopy ==
    /\ Alive /\ sh.rpc = "copy"
    /\ Commit(IF sh.ri > Len(sh.list.users) THEN [Me EXCEPT !.sh.rpc = "done"]
              ELSE IF sh.ri > sh.rlen THEN [Me EXCEPT !.panicked = "Users"]
              ELSE [Me EXCEPT !.sh = [@ EXCEPT !.snap[sh.ri] = sh.list.users[sh.ri],
                                               !.ri = @ + 1]])
    /\ UNCHANGED <<config, dpc, dloc, CallerVars>>

SharedUsers ==
    { NewUser(<<"Test">>, <<>>, <<>>, <<>>),
      [NewUser(<<"Other">>, <<>>, <<>>, <<>>) EXCEPT !.modes = <<"v">>] }

SharedNicks == { <<"Test">>, <<"Other">> }

MaxSharedCalls == 4

InitShared == InitClient({TestConfig})

NextShared ==
    \/ SharedInsert(MaxSharedCalls, SharedUsers)
    \/ SharedRemove(MaxSharedCalls, {<<"Other">>})
    \/ SharedRename(MaxSharedCalls, {<<"Test">>, <<"Third">>})
    \/ SharedAddMode(MaxSharedCalls, SharedNicks, {"o"})
    \/ SharedRemoveMode(MaxSharedCalls, SharedNicks, {"v"})
    \/ ModePrefixes
    \/ ModePrefixedNick
    \/ ModeSort
    \/ SharedUser(SharedNicks)
    \/ UsersLen
    \/ UsersRLock
    \/ UsersCopy

SpecShared == InitShared /\ [][NextShared]_vars

\* C38: a call of User or Users that ran beside calls that change the list
\* did not fail, and what it returned is what the list held before or after
\* one of these calls.
C38_SnapshotConsistent ==
    /\ panicked # "Users"
    /\ sh.rpc = "done" => sh.snap \in sh.seen


\* ---------------------------------------------------------------------
\* The IDs of the targets, under SpecQuery

\* C39: the targets of the target set have pairwise distinct IDs, and none
\* has the ID of the client.
C39_DistinctIDs ==
    /\ \A i, j \in 1..Len(targets) : targets[i].id = targets[j].id => i = j
    /\ \A i \in 1..Len(targets) : targets[i].id # ClientID


\* ---------------------------------------------------------------------
\* The nicks of the userlists, under SpecNames

\* C40: no userlist of a channel of the target set holds a user whose nick is
\* empty.
C40_NoEmptyNick ==
    \A i \in 1..Len(targets) :
        targets[i].kind = "channel" =>
            \A k \in 1..Len(targets[i].userlist.users) :
                targets[i].userlist.users[k].nick # <<>>

====
